---- MODULE Spec2Model ----
(***************************************************************************)
(* Browser Tabs Manager: the capture pipeline of the background service    *)
(* worker (captureCurrentWindow, removeTabsSafely, buildCapturePlan, the   *)
(* session store) and the restore engine (restoreTabs).                    *)
(*                                                                         *)
(* Strings are sequences of chunks (a chunk is a run of characters that    *)
(* the code never looks inside: a whitespace character, a scheme prefix,   *)
(* a host).  An optional value (T | undefined) is a sequence of length 0   *)
(* or 1.                                                                   *)
(***************************************************************************)
EXTENDS Integers, Sequences, FiniteSets, TLC

VARIABLES
  \* chrome.storage.local
  sessionsStore,   \* value under btm.sessions.v1: sequence of Session
  lastCaptureStore,\* value under btm.lastCapture.v1: optional CaptureInfo
  settingsStore,   \* value under btm.settings.v1: optional Settings
  \* the browser window the capture / restore works on
  win,             \* sequence of tabs, in tab-strip order
  nextTabId,       \* next fresh tab handle
  \* captureCurrentWindow: position and locals
  pc, cap,
  \* history of the running capture (what it called, what it returned)
  hist,
  \* counters of the environment
  env,
  \* restoreTabs: position, request, locals and history
  rpc, req, rs, rhist,
  newWin,          \* the window restoreTabs created: optional sequence of tabs
  \* buildCapturePlan called on its own: arguments and optional result
  planTabs, planSettings, planResult,
  \* buildRestoreQueue called on its own: arguments and optional result
  queueItems, queueSelected, queueResult,
  \* export and import of a session: the text in hand, the export call and
  \* the import call
  jsonText, exported, imp,
  \* isRestrictedUrl called on its own: argument and optional result
  urlInput, urlResult,
  \* a second invocation of captureCurrentWindow: the position, locals and
  \* history of the invocation that is not the one the next step belongs to
  other,
  \* calls of the functions of storage.ts that may interleave
  storeOps,
  \* a message the service worker received, and its handler
  message

storeVars == <<sessionsStore, lastCaptureStore, settingsStore>>
captureVars == <<pc, cap, hist, env>>
restoreVars == <<rpc, req, rs, rhist, newWin>>
planVars == <<planTabs, planSettings, planResult>>
queueVars == <<queueItems, queueSelected, queueResult>>
importVars == <<jsonText, exported, imp>>
urlVars == <<urlInput, urlResult>>
callVars == <<storeOps, message>>
pureVars == <<planVars, queueVars, importVars, other, urlVars, callVars>>
vars == <<sessionsStore, lastCaptureStore, settingsStore, win, nextTabId,
          pc, cap, hist, env, rpc, req, rs, rhist, newWin,
          planTabs, planSettings, planResult,
          queueItems, queueSelected, queueResult,
          jsonText, exported, imp, other,
          urlInput, urlResult, storeOps, message>>

----------------------------------------------------------------------------
(* Bounds of the model *)

\* calls of addSession, updateSession and deleteSession in one behaviour
MaxStoreOps == 2
\* messages the service worker receives, one after the other
MaxMessages == 2

\* sessions in the store before the first export or import
MaxStoredSessions == 2
\* calls of importSessionFromJson in one behaviour
MaxImports == 2

\* captures started in one behaviour
MaxCaptures == 1
\* tabs the pages open and the user closes while a call is suspended
MaxUserOps == 1
\* items of a restore request
MaxItems == 3
\* tabs of a tab list buildCapturePlan is called on by itself
MaxPlanTabs == 3

----------------------------------------------------------------------------
(* Strings and optional values *)

None == <<>>
Some(v) == <<v>>
IsSome(o) == Len(o) > 0
Get(o) == o[1]

IsSpace(c) == c \in {" ", "\t", "\n"}

RECURSIVE TrimStart(_)
TrimStart(s) ==
  IF s = <<>> THEN <<>>
  ELSE IF IsSpace(Head(s)) THEN TrimStart(Tail(s)) ELSE s

RECURSIVE TrimEnd(_)
TrimEnd(s) ==
  IF s = <<>> THEN <<>>
  ELSE IF IsSpace(s[Len(s)]) THEN TrimEnd(SubSeq(s, 1, Len(s) - 1)) ELSE s

\* String.prototype.trim
Trim(s) == TrimEnd(TrimStart(s))

\* the characters of each chunk a URL of the model is made of
ChunkChars ==
  (" " :> <<" ">>)
  @@ ("\t" :> <<"\t">>)
  @@ ("\n" :> <<"\n">>)
  @@ ("http://" :> <<"h", "t", "t", "p", ":", "/", "/">>)
  @@ ("https://" :> <<"h", "t", "t", "p", "s", ":", "/", "/">>)
  @@ ("HTTP://" :> <<"H", "T", "T", "P", ":", "/", "/">>)
  @@ ("HTTPS://" :> <<"H", "T", "T", "P", "S", ":", "/", "/">>)
  @@ ("chrome://" :> <<"c", "h", "r", "o", "m", "e", ":", "/", "/">>)
  @@ ("CHROME://" :> <<"C", "H", "R", "O", "M", "E", ":", "/", "/">>)
  @@ ("about:" :> <<"a", "b", "o", "u", "t", ":">>)
  @@ ("About:" :> <<"A", "b", "o", "u", "t", ":">>)
  @@ ("edge://" :> <<"e", "d", "g", "e", ":", "/", "/">>)
  @@ ("chrome-extension://" :> <<"c", "h", "r", "o", "m", "e", "-", "e", "x", "t", "e", "n", "s", "i", "o", "n", ":", "/", "/">>)
  @@ ("chrome-search://" :> <<"c", "h", "r", "o", "m", "e", "-", "s", "e", "a", "r", "c", "h", ":", "/", "/">>)
  @@ ("view-source:" :> <<"v", "i", "e", "w", "-", "s", "o", "u", "r", "c", "e", ":">>)
  @@ ("file://" :> <<"f", "i", "l", "e", ":", "/", "/">>)
  @@ ("ftp://" :> <<"f", "t", "p", ":", "/", "/">>)
  @@ ("data:" :> <<"d", "a", "t", "a", ":">>)
  @@ ("blob:" :> <<"b", "l", "o", "b", ":">>)
  @@ ("a.com" :> <<"a", ".", "c", "o", "m">>)
  @@ ("b.com" :> <<"b", ".", "c", "o", "m">>)
  @@ ("c.com" :> <<"c", ".", "c", "o", "m">>)
  @@ ("d.com" :> <<"d", ".", "c", "o", "m">>)
  @@ ("a.ico" :> <<"a", ".", "i", "c", "o">>)
  @@ ("extensions" :> <<"e", "x", "t", "e", "n", "s", "i", "o", "n", "s">>)
  @@ ("newtab/" :> <<"n", "e", "w", "t", "a", "b", "/">>)
  @@ ("/path" :> <<"/", "p", "a", "t", "h">>)
  @@ ("/icon" :> <<"/", "i", "c", "o", "n">>)
  @@ ("not a url" :> <<"n", "o", "t", " ", "a", " ", "u", "r", "l">>)
  @@ ("pages/manager/index.html" :> <<"p", "a", "g", "e", "s", "/", "m", "a", "n", "a", "g", "e", "r", "/", "i", "n", "d", "e", "x", ".", "h", "t", "m", "l">>)
  @@ ("pages/options/index.html" :> <<"p", "a", "g", "e", "s", "/", "o", "p", "t", "i", "o", "n", "s", "/", "i", "n", "d", "e", "x", ".", "h", "t", "m", "l">>)

\* the characters of a chunk of a URL
Chars(c) == ChunkChars[c]

\* the characters of a string given by its chunks
RECURSIVE CharsOf(_)
CharsOf(s) == IF s = <<>> THEN <<>> ELSE Chars(Head(s)) \o CharsOf(Tail(s))

\* the capital letters and their lower-case forms
Capitals ==
  {"A", "B", "C", "D", "E", "F", "G", "H", "I", "J", "K", "L", "M",
   "N", "O", "P", "Q", "R", "S", "T", "U", "V", "W", "X", "Y", "Z"}
Lower ==
  [A |-> "a", B |-> "b", C |-> "c", D |-> "d", E |-> "e", F |-> "f", G |-> "g", H |-> "h", I |-> "i", J |-> "j", K |-> "k", L |-> "l", M |-> "m",
   N |-> "n", O |-> "o", P |-> "p", Q |-> "q", R |-> "r", S |-> "s", T |-> "t", U |-> "u", V |-> "v", W |-> "w", X |-> "x", Y |-> "y", Z |-> "z"]

\* String.prototype.toLowerCase, character by character
LowerChar(ch) == IF ch \in Capitals THEN Lower[ch] ELSE ch

ToLowerCase(chars) == [i \in 1..Len(chars) |-> LowerChar(chars[i])]

\* String.prototype.startsWith
StartsWith(chars, prefix) ==
  /\ Len(prefix) <= Len(chars)
  /\ SubSeq(chars, 1, Len(prefix)) = prefix

\* the deny list of isRestrictedUrl
RestrictedPrefixes ==
  {"chrome://", "edge://", "about:", "chrome-extension://", "view-source:"}

\* the URL parser drops every tab and newline of its input
IsTabOrNewline(ch) == ch \in {"\t", "\n"}
NoTabOrNewline(ch) == ~IsTabOrNewline(ch)
WithoutTabsAndNewlines(u) == SelectSeq(u, NoTabOrNewline)

\* character classes of the URL parser
Letters ==
  {"a", "b", "c", "d", "e", "f", "g", "h", "i", "j", "k", "l", "m",
   "n", "o", "p", "q", "r", "s", "t", "u", "v", "w", "x", "y", "z"}
IsAlpha(ch) == ch \in Letters \/ ch \in Capitals
IsDigit(ch) == ch \in {"0", "1", "2", "3", "4", "5", "6", "7", "8", "9"}
IsSchemeChar(ch) == IsAlpha(ch) \/ IsDigit(ch) \/ ch \in {"+", "-", "."}

\* a code point no host may hold; a domain may not hold "%" either
IsForbiddenHostChar(ch, special) ==
  \/ ch \in {" ", "#", "/", ":", "<", ">", "?", "@", "[", "\\", "]", "^", "|"}
  \/ special /\ ch = "%"

\* the place of the first character of the sequence that is in the set, one
\* past the end when there is none
RECURSIVE FirstFrom(_, _, _)
FirstFrom(chars, set, i) ==
  IF i > Len(chars) \/ chars[i] \in set THEN i ELSE FirstFrom(chars, set, i + 1)

FirstIn(chars, set) == FirstFrom(chars, set, 1)

\* the place of the first character that cannot be part of a scheme
RECURSIVE SchemeEndFrom(_, _)
SchemeEndFrom(chars, i) ==
  IF i > Len(chars) \/ ~IsSchemeChar(chars[i]) THEN i ELSE SchemeEndFrom(chars, i + 1)

SchemeEnd(chars) == SchemeEndFrom(chars, 1)

\* the schemes the parser calls special, but for file
SpecialSchemes ==
  { <<"h", "t", "t", "p">>, <<"h", "t", "t", "p", "s">>, <<"f", "t", "p">>,
    <<"w", "s">>, <<"w", "s", "s">> }

\* host parsing: the host holds no forbidden code point (the hosts of the
\* model hold no digit, bracket or percent sign, so that none is an IP
\* address or percent-encoded)
HostParses(host, special) ==
  \A i \in 1..Len(host) : ~IsForbiddenHostChar(host[i], special)

\* the number a port of digits stands for, 65536 for every greater one
RECURSIVE PortValue(_, _)
PortValue(port, acc) ==
  IF port = <<>> \/ acc > 65535 THEN (IF acc > 65535 THEN 65536 ELSE acc)
  ELSE PortValue(Tail(port),
                 10 * acc + (CHOOSE d \in 0..9 :
                               <<"0", "1", "2", "3", "4", "5", "6", "7", "8", "9">>[d + 1]
                                 = Head(port)))

\* port state: digits only, at most 65535
PortParses(port) ==
  /\ \A i \in 1..Len(port) : IsDigit(port[i])
  /\ PortValue(port, 0) <= 65535

\* the place of the last character of the sequence that is in the set,
\* looked for from place i downwards, 0 when there is none
RECURSIVE LastFrom(_, _, _)
LastFrom(chars, set, i) ==
  IF i = 0 \/ chars[i] \in set THEN i ELSE LastFrom(chars, set, i - 1)

\* authority state: the authority is what comes before the path, the query
\* or the fragment
Authority(rest, special) ==
  SubSeq(rest, 1,
         FirstIn(rest, IF special THEN {"/", "\\", "?", "#"} ELSE {"/", "?", "#"}) - 1)

\* host and port state: the host is what comes before the first colon, the
\* port what follows it; a special scheme needs a host, a port or
\* credentials need one with any scheme
HostPortParses(hostport, colon, hasCredentials, special) ==
  /\ (special \/ colon <= Len(hostport)) => colon > 1
  /\ hasCredentials => hostport # <<>>
  /\ HostParses(SubSeq(hostport, 1, colon - 1), special)
  /\ colon <= Len(hostport) => PortParses(SubSeq(hostport, colon + 1, Len(hostport)))

\* authority state: the credentials end at the last "@"
CredentialsParse(authority, lastAt, special) ==
  HostPortParses(SubSeq(authority, lastAt + 1, Len(authority)),
                 FirstIn(SubSeq(authority, lastAt + 1, Len(authority)), {":"}),
                 lastAt > 0, special)

\* authority, host and port state, for what follows the slashes
AuthorityOfParses(authority, special) ==
  CredentialsParse(authority, LastFrom(authority, {"@"}, Len(authority)), special)

AuthorityParses(rest, special) == AuthorityOfParses(Authority(rest, special), special)

\* special authority slashes states: every leading slash is skipped
RECURSIVE SkipSlashes(_)
SkipSlashes(rest) ==
  IF rest # <<>> /\ Head(rest) \in {"/", "\\"} THEN SkipSlashes(Tail(rest)) ELSE rest

IsWindowsDriveLetter(buffer) ==
  Len(buffer) = 2 /\ IsAlpha(buffer[1]) /\ buffer[2] \in {":", "|"}

\* file host state: the host may be empty or a drive letter and has no port
FileHostParses(buffer) == IsWindowsDriveLetter(buffer) \/ HostParses(buffer, TRUE)

\* file, file slash and file host state: after two slashes comes a host
FileParses(rest) ==
  IF Len(rest) >= 2 /\ rest[1] \in {"/", "\\"} /\ rest[2] \in {"/", "\\"}
    THEN FileHostParses(Authority(SubSeq(rest, 3, Len(rest)), TRUE))
    ELSE TRUE

\* scheme state onwards: what follows "scheme:" parses
RestParses(scheme, rest) ==
  CASE scheme = <<"f", "i", "l", "e">> -> FileParses(rest)
    [] scheme \in SpecialSchemes -> AuthorityParses(SkipSlashes(rest), TRUE)
    [] Len(rest) >= 2 /\ rest[1] = "/" /\ rest[2] = "/" ->
         AuthorityParses(SubSeq(rest, 3, Len(rest)), FALSE)
    [] OTHER -> TRUE

\* the protocol is the scheme in lower case and the colon
ProtocolIfParses(scheme, rest) ==
  IF RestParses(scheme, rest) THEN Some(scheme \o <<":">>) ELSE None

\* scheme state: a colon ends the scheme, or the string does not parse
\* (there is no base URL)
SchemeThenRest(input, k) ==
  IF k > Len(input) THEN None
  ELSE IF input[k] # ":" THEN None
  ELSE ProtocolIfParses(ToLowerCase(SubSeq(input, 1, k - 1)),
                        SubSeq(input, k + 1, Len(input)))

\* scheme start state: the scheme starts with a letter; it is the
\* characters before the first one that is no letter, digit, "+", "-" or "."
ProtocolOfInput(input) ==
  IF input = <<>> THEN None
  ELSE IF ~IsAlpha(input[1]) THEN None
  ELSE SchemeThenRest(input, SchemeEnd(input))

\* new URL(u).protocol for a string given by its chunks: None when the
\* constructor throws.  The parser strips white space at both ends and
\* drops tabs and newlines.
ParseProtocol(u) == ProtocolOfInput(WithoutTabsAndNewlines(Trim(CharsOf(u))))

\* every protocol passes for http or https
IsWebProtocol_AnyProtocol(protocol) == TRUE

\* line 45: parsed.protocol === 'http:' || parsed.protocol === 'https:'
IsWebProtocol(protocol) ==
  protocol = <<"h", "t", "t", "p", ":">> \/ protocol = <<"h", "t", "t", "p", "s", ":">>

\* lines 33-38: the lower-cased string starts with a prefix of the deny list
HasRestrictedPrefix(lower) ==
  \E prefix \in RestrictedPrefixes : StartsWith(lower, Chars(prefix))

\* lines 43-49: the URL does not parse or its protocol is not a web one
IsNotWeb(p) == IF IsSome(p) THEN ~IsWebProtocol(Get(p)) ELSE TRUE

\* lines 29-49
isRestrictedUrl(url) ==
  LET u == Trim(CharsOf(url)) IN
  IF u = <<>> THEN TRUE
  ELSE IF HasRestrictedPrefix(ToLowerCase(u)) THEN TRUE
  ELSE IsNotWeb(ParseProtocol(url))

----------------------------------------------------------------------------
(* buildCapturePlan *)

\* Number.MAX_SAFE_INTEGER: the sort key of a tab without a handle.  TLC's
\* integers are 32 bits wide; the value only has to exceed every handle.
MAX_SAFE_INTEGER == 2147483647

SortIndex(t) == t.index
SortId(t) == IF t.hasId THEN t.id ELSE MAX_SAFE_INTEGER

\* the comparison by index alone, the tie-break by handle left out
TabLeq_IndexOnly(a, b) == SortIndex(a) <= SortIndex(b)

\* stableTabSort(a, b) <= 0 : a does not have to come after b
TabLeq(a, b) ==
  IF SortIndex(a) # SortIndex(b) THEN SortIndex(a) < SortIndex(b)
  ELSE SortId(a) <= SortId(b)

\* Array.prototype.sort is stable: an element is inserted after every
\* element that does not have to come after it
RECURSIVE InsertTab(_, _)
InsertTab(t, sorted) ==
  IF sorted = <<>> THEN <<t>>
  ELSE IF TabLeq(Head(sorted), t) THEN <<Head(sorted)>> \o InsertTab(t, Tail(sorted))
  ELSE <<t>> \o sorted

\* the sort left out: the tabs are planned in the order of the input
SortTabs_AsGiven(tabs) == tabs

RECURSIVE SortTabs(_)
SortTabs(tabs) ==
  IF tabs = <<>> THEN <<>>
  ELSE InsertTab(tabs[Len(tabs)], SortTabs(SubSeq(tabs, 1, Len(tabs) - 1)))

\* the pinned check left out: pinned tabs are treated like any other tab
IsPinnedSkip_Never(t, settings) == FALSE

\* line 68: the tab is skipped as pinned
IsPinnedSkip(t, settings) == settings.excludePinnedTabs /\ t.pinned

\* lines 73-74: the tab is skipped as restricted
IsRestrictedSkip(t) ==
  LET url == Trim(IF IsSome(t.url) THEN Get(t.url) ELSE <<>>) IN
  url = <<>> \/ isRestrictedUrl(url)

\* the title is stored as the tab gives it, the url standing in only for
\* a missing one
ItemOf_TitleAsGiven(t) ==
  [title |-> IF IsSome(t.title) THEN Get(t.title) ELSE Trim(Get(t.url)),
   url |-> Trim(Get(t.url)),
   favIconUrl |-> t.favIconUrl]

\* lines 79-84: the item stored for a captured tab
ItemOf(t) ==
  LET url == Trim(Get(t.url))
      trimmed == Trim(IF IsSome(t.title) THEN Get(t.title) ELSE url)
  IN [title |-> IF trimmed = <<>> THEN url ELSE trimmed,
      url |-> url,
      favIconUrl |-> t.favIconUrl]

\* every tab is taken to have a handle
HasHandle_Always(t) == TRUE

\* lines 86-87: the tab has a numeric id
HasHandle(t) == t.hasId

\* with keepActiveTab every tab is kept, active or not
IsKeptActive_AnyTab(t, settings) == settings.keepActiveTab

\* the kept-active check left out: the active tab becomes a close candidate
IsKeptActive_Never(t, settings) == FALSE

\* line 89: a captured tab with a handle that is kept open
IsKeptActive(t, settings) == settings.keepActiveTab /\ t.active

\* a tab whose URL an earlier item has is passed over, uncounted
RECURSIVE PlanLoop_SkipsRepeatedUrl(_, _, _)
PlanLoop_SkipsRepeatedUrl(ordered, settings, acc) ==
  IF ordered = <<>> THEN acc
  ELSE LET t == Head(ordered)
           rest == Tail(ordered)
       IN
    IF IsPinnedSkip(t, settings)
      THEN PlanLoop_SkipsRepeatedUrl(rest, settings,
             [acc EXCEPT !.skippedPinnedCount = @ + 1])
    ELSE IF IsRestrictedSkip(t)
      THEN PlanLoop_SkipsRepeatedUrl(rest, settings,
             [acc EXCEPT !.skippedRestrictedCount = @ + 1])
    ELSE IF \E k \in 1..Len(acc.items) : acc.items[k].url = ItemOf(t).url
      THEN PlanLoop_SkipsRepeatedUrl(rest, settings, acc)
    ELSE LET acc1 == [acc EXCEPT !.items = Append(@, ItemOf(t))] IN
      IF ~HasHandle(t) THEN PlanLoop_SkipsRepeatedUrl(rest, settings, acc1)
      ELSE IF IsKeptActive(t, settings)
        THEN PlanLoop_SkipsRepeatedUrl(rest, settings,
               [acc1 EXCEPT !.skippedActiveCount = @ + 1])
      ELSE PlanLoop_SkipsRepeatedUrl(rest, settings,
             [acc1 EXCEPT !.closeCandidates =
                Append(@, [tabId |-> t.id, url |-> ItemOf(t).url])])

RECURSIVE PlanLoop(_, _, _)
PlanLoop(ordered, settings, acc) ==
  IF ordered = <<>> THEN acc
  ELSE LET t == Head(ordered)
           rest == Tail(ordered)
       IN
    IF IsPinnedSkip(t, settings)
      THEN PlanLoop(rest, settings,
             [acc EXCEPT !.skippedPinnedCount = @ + 1])
    ELSE IF IsRestrictedSkip(t)
      THEN PlanLoop(rest, settings,
             [acc EXCEPT !.skippedRestrictedCount = @ + 1])
    ELSE LET acc1 == [acc EXCEPT !.items = Append(@, ItemOf(t))] IN
      IF ~HasHandle(t) THEN PlanLoop(rest, settings, acc1)
      ELSE IF IsKeptActive(t, settings)
        THEN PlanLoop(rest, settings,
               [acc1 EXCEPT !.skippedActiveCount = @ + 1])
      ELSE PlanLoop(rest, settings,
             [acc1 EXCEPT !.closeCandidates =
                Append(@, [tabId |-> t.id, url |-> ItemOf(t).url])])

EmptyPlanAcc ==
  [items |-> <<>>, closeCandidates |-> <<>>,
   skippedRestrictedCount |-> 0, skippedPinnedCount |-> 0,
   skippedActiveCount |-> 0]

buildCapturePlan(tabs, settings) ==
  LET acc == PlanLoop(SortTabs(tabs), settings, EmptyPlanAcc) IN
  [items |-> acc.items,
   closeCandidates |-> acc.closeCandidates,
   closeTabIds |-> [i \in 1..Len(acc.closeCandidates) |-> acc.closeCandidates[i].tabId],
   capturedCount |-> Len(acc.items),
   skippedRestrictedCount |-> acc.skippedRestrictedCount,
   skippedPinnedCount |-> acc.skippedPinnedCount,
   skippedActiveCount |-> acc.skippedActiveCount,
   skippedCount |-> acc.skippedRestrictedCount + acc.skippedPinnedCount,
   capturedUrlsPreview |->
     [i \in 1..(IF Len(acc.items) < 5 THEN Len(acc.items) ELSE 5) |-> acc.items[i].url]]

----------------------------------------------------------------------------
(* The session store (storage.ts) *)

defaultSettings ==
  [keepActiveTab |-> FALSE, excludePinnedTabs |-> TRUE,
   sessionNamePrefix |-> <<"Session">>,
   skipDuplicatesOnRestore |-> FALSE, restoreInBackgroundDefault |-> FALSE]

\* getSettings: the decoded record (a missing record gives the defaults)
DecodeSettings(raw) == IF IsSome(raw) THEN Get(raw) ELSE defaultSettings

\* formatSessionTitle(prefix, createdAt): the prefix and the formatted time
formatSessionTitle(prefix, createdAt) == [prefix |-> prefix, at |-> createdAt]

\* addSession, lines 58-64: the session record that is stored
CreatedSession(session, freshId) ==
  [id |-> IF IsSome(session.id) THEN Get(session.id) ELSE freshId,
   title |-> session.title,
   createdAt |-> session.createdAt,
   skippedCount |-> session.skippedCount,
   items |-> session.items]

\* addSession, line 65: the list that is written
PrependSession(created, sessions) == <<created>> \o sessions

----------------------------------------------------------------------------
(* The browser window (chrome.tabs) *)

HttpsA == <<"https://", "a.com">>
HttpsB == <<"https://", "b.com">>
HttpsC == <<"https://", "c.com">>
ChromeExt == <<"chrome://", "extensions">>

MkTab(hasId, id, url, title, fav, pinned) ==
  [hasId |-> hasId, id |-> id, url |-> url, title |-> title,
   favIconUrl |-> fav, pinned |-> pinned, active |-> FALSE]

\* the tabs a window of the model is made of
TabPool ==
  << MkTab(TRUE, 1, Some(HttpsA), Some(<<"A">>), Some(<<"a.ico">>), FALSE),
     MkTab(TRUE, 2, Some(HttpsB), Some(<<>>), None, TRUE),
     MkTab(TRUE, 3, Some(ChromeExt), None, None, FALSE),
     MkTab(FALSE, 0, Some(HttpsC), Some(<<"C">>), None, FALSE) >>

\* handles of tabs opened later are fresh
FirstFreeTabId == Len(TabPool) + 1

RECURSIVE PickTabs(_, _, _)
PickTabs(pool, S, k) ==
  IF k > Len(pool) THEN <<>>
  ELSE (IF k \in S THEN <<pool[k]>> ELSE <<>>) \o PickTabs(pool, S, k + 1)

\* a window: some tabs of the pool in pool order, exactly one of them active
Windows ==
  { LET w == PickTabs(TabPool, S, 1) IN
      [i \in 1..Len(w) |-> [w[i] EXCEPT !.active = (i = a)]]
    : <<S, a>> \in { sa \in (SUBSET (1..Len(TabPool))) \X (1..Len(TabPool)) :
                       sa[2] <= Cardinality(sa[1]) } }

TabIds(w) == { w[i].id : i \in { j \in 1..Len(w) : w[j].hasId } }

\* chrome.tabs.query({windowId}): the window's tabs with their positions
TabsQuery(w) ==
  [i \in 1..Len(w) |->
     [hasId |-> w[i].hasId, id |-> w[i].id, index |-> i - 1, url |-> w[i].url,
      title |-> w[i].title, favIconUrl |-> w[i].favIconUrl,
      pinned |-> w[i].pinned, active |-> w[i].active]]

RECURSIVE WithoutTabs(_, _)
WithoutTabs(w, ids) ==
  IF w = <<>> THEN <<>>
  ELSE IF Head(w).hasId /\ Head(w).id \in ids THEN WithoutTabs(Tail(w), ids)
  ELSE <<Head(w)>> \o WithoutTabs(Tail(w), ids)

\* the browser activates another tab when the active one goes away
Reactivate(w) ==
  IF w = <<>> \/ \E i \in 1..Len(w) : w[i].active THEN w
  ELSE [w EXCEPT ![Len(w)].active = TRUE]

\* a tab that is created active takes the place of the active tab
Deactivated(w) == [k \in 1..Len(w) |-> [w[k] EXCEPT !.active = FALSE]]

\* the new tab takes the place of the window's tabs
AddTab_Replaces(w, t) == <<t>>

AddTab(w, t) == Append(IF t.active THEN Deactivated(w) ELSE w, t)

\* chrome.tabs.remove(ids) works through ids in order and stops with an error
\* at the first handle that names no tab: the handles it removes
RECURSIVE RemovablePrefix(_, _)
RemovablePrefix(ids, present) ==
  IF ids = <<>> \/ Head(ids) \notin present THEN {}
  ELSE {Head(ids)} \cup RemovablePrefix(Tail(ids), present \ {Head(ids)})

SeqToSet(s) == { s[i] : i \in 1..Len(s) }

\* tabsRemove(ids) fulfils only when every handle names a tab of the window
CanRemoveAll(ids, w) ==
  /\ SeqToSet(ids) \subseteq TabIds(w)
  /\ Cardinality(SeqToSet(ids)) = Len(ids)

----------------------------------------------------------------------------
(* captureCurrentWindow (service-worker.ts) *)

\* developer flag: simulate the capture without closing tabs
DEBUG_DRY_RUN == FALSE

\* lines 101-117: the record of a capture whose plan has no items
EmptyPlanInfo(startedAt, plan) ==
  [createdAt |-> startedAt, createdSessionId |-> None,
   capturedCount |-> 0, closedCount |-> 0,
   skippedCount |-> plan.skippedCount,
   skippedRestrictedCount |-> plan.skippedRestrictedCount,
   skippedPinnedCount |-> plan.skippedPinnedCount,
   skippedActiveCount |-> plan.skippedActiveCount,
   failedToCloseCount |-> 0, failedToCloseTabIds |-> <<>>,
   failedToCloseUrls |-> <<>>, closeError |-> None,
   debugDryRun |-> DEBUG_DRY_RUN,
   error |-> Some(IF plan.skippedCount > 0
                    THEN "All eligible tabs had restricted URLs and were skipped."
                    ELSE "No tabs to capture.")]

\* line 141: urlById.get(id); a later candidate with the same handle wins
RECURSIVE UrlById(_, _)
UrlById(closeCandidates, id) ==
  IF closeCandidates = <<>> THEN None
  ELSE LET n == Len(closeCandidates) IN
    IF closeCandidates[n].tabId = id THEN Some(closeCandidates[n].url)
    ELSE UrlById(SubSeq(closeCandidates, 1, n - 1), id)

\* line 142: the URLs of the handles that failed to close (falsy ones dropped)
RECURSIVE FailedUrls(_, _)
FailedUrls(closeCandidates, failedTabIds) ==
  IF failedTabIds = <<>> THEN <<>>
  ELSE LET u == UrlById(closeCandidates, Head(failedTabIds)) IN
    (IF IsSome(u) /\ Get(u) # <<>> THEN <<Get(u)>> ELSE <<>>)
      \o FailedUrls(closeCandidates, Tail(failedTabIds))

\* lines 144-158: the record of a capture that persisted a session
FinalInfo(startedAt, plan, created, closedTabIds, failedTabIds, closeError) ==
  [createdAt |-> startedAt, createdSessionId |-> Some(created.id),
   capturedCount |-> plan.capturedCount, closedCount |-> Len(closedTabIds),
   skippedCount |-> plan.skippedCount,
   skippedRestrictedCount |-> plan.skippedRestrictedCount,
   skippedPinnedCount |-> plan.skippedPinnedCount,
   skippedActiveCount |-> plan.skippedActiveCount,
   failedToCloseCount |-> Len(failedTabIds),
   failedToCloseTabIds |-> failedTabIds,
   failedToCloseUrls |-> FailedUrls(plan.closeCandidates, failedTabIds),
   closeError |-> closeError,
   debugDryRun |-> DEBUG_DRY_RUN,
   error |-> None]

\* lines 162-176: the record written by the catch block
CaughtInfo(startedAt, msg) ==
  [createdAt |-> startedAt, createdSessionId |-> None,
   capturedCount |-> 0, closedCount |-> 0, skippedCount |-> 0,
   skippedRestrictedCount |-> 0, skippedPinnedCount |-> 0,
   skippedActiveCount |-> 0,
   failedToCloseCount |-> 0, failedToCloseTabIds |-> <<>>,
   failedToCloseUrls |-> <<>>, closeError |-> None,
   debugDryRun |-> DEBUG_DRY_RUN,
   error |-> Some(msg)]

EmptyPlan == buildCapturePlan(<<>>, defaultSettings)

\* the locals of captureCurrentWindow before it runs
InitCap ==
  [startedAt |-> 0, settings |-> defaultSettings, tabs |-> <<>>,
   plan |-> EmptyPlan, sessions |-> <<>>, created |-> None,
   closedTabIds |-> <<>>, failedTabIds |-> <<>>, closeError |-> None,
   i |-> 1, info |-> None]

\* what the running capture has done so far
InitHist ==
  [started |-> FALSE,
   trigger |-> "none",       \* the listener that called: command or message
   addDone |-> FALSE,        \* addSession returned
   removeCalls |-> <<>>,     \* the handle lists passed to tabsRemove, with
                             \* whether addSession had returned by then
                             \* and whether the call fulfilled
   closed |-> {},            \* the handles of the tabs these calls closed
   setCalls |-> 0,           \* setLastCapture calls
   writes |-> <<>>,          \* the records setLastCapture stored
   prevLast |-> None,        \* the record stored when the capture started
   outcome |-> "none",       \* "returned" or "rejected"
   returned |-> None,        \* the CaptureInfo returned
   caught |-> None,          \* the message the catch block saw
   thrownBy |-> "none"]      \* the call that threw into the catch block

InitEnv == [captures |-> 0, userOps |-> 0, clock |-> 1, nextSessionId |-> 1]

\* an invocation of captureCurrentWindow that has not been made
InitOther == [pc |-> "idle", cap |-> InitCap, hist |-> InitHist]

\* a call of a store function that has not been made
IdleStoreOp ==
  [pc |-> "idle",            \* idle, get, set, remove, setSettings, done
   kind |-> "none",          \* the function called
   settings |-> None,        \* the argument of setSettings
   session |-> None,         \* the argument of addSession
   sessionId |-> 0,          \* the id updateSession or deleteSession is given
   patch |-> None,           \* the patch updateSession is given
   sessions |-> <<>>,        \* what getAllSessions returned
   before |-> <<>>,          \* the stored list when setAllSessions was called
   after |-> <<>>,           \* the list setAllSessions was given
   outcome |-> "none",       \* none, resolved, rejected
   created |-> None,         \* the session addSession returned
   text |-> None]            \* the text exportSessionAsJson returned

InitStoreOps == [k \in 1..MaxStoreOps |-> IdleStoreOp]

\* no message has been received
InitMessage ==
  [type |-> "none",          \* the type of the message
   received |-> 0,           \* messages received so far
   pc |-> "idle",            \* idle, the await the handler is at, ended
   responses |-> <<>>,       \* the arguments of the sendResponse calls
   outcome |-> "none"]       \* none, returned, rejected: how the handler ended

\* no export and no import has been called
InitExported ==
  [outcome |-> "none",       \* none, pending, resolved, rejected
   sessionId |-> 0,          \* the id exportSessionAsJson was given
   session |-> None]         \* the session it found

InitImp ==
  [pc |-> "idle",            \* idle, addSession.get, addSession.set, done
   calls |-> 0,              \* calls of importSessionFromJson so far
   fromExport |-> FALSE,     \* the text is the one exportSessionAsJson returned
   storeBefore |-> <<>>,     \* the stored sessions when the call was made
   decoded |-> None,         \* the argument of addSession
   sessions |-> <<>>,        \* what getAllSessions returned to addSession
   outcome |-> "none",       \* none, resolved, rejected
   error |-> "",
   result |-> None]          \* the session importSessionFromJson returned

\* the tabs are closed before the session is persisted
AfterPlan_CloseFirst(plan) ==
  IF Len(plan.items) = 0 THEN "setLastCapture" ELSE "tabsRemove.batch"

\* the step after the plan is built (lines 100-128)
AfterPlan(plan) == IF Len(plan.items) = 0 THEN "setLastCapture" ELSE "addSession.get"

\* the batched remove is issued for an empty handle list too
ClosesTabs_EvenIfEmpty(closeTabIds) == ~DEBUG_DRY_RUN

\* line 134-135 and line 38: whether removeTabsSafely issues a batched remove
ClosesTabs(closeTabIds) == ~DEBUG_DRY_RUN /\ Len(closeTabIds) # 0

\* entering the catch block (lines 161-177)
Throw(by, msg) ==
  /\ pc' = "catch.setLastCapture"
  /\ cap' = [cap EXCEPT !.info = Some(CaughtInfo(cap.startedAt, msg))]
  /\ hist' = [hist EXCEPT !.caught = Some(msg), !.thrownBy = by]

\* what an invocation of captureCurrentWindow has done when it starts
StartedHist(trigger) ==
  [InitHist EXCEPT !.started = TRUE, !.trigger = trigger,
                   !.prevLast = lastCaptureStore]

\* lines 182-185: the command send-tabs-to-manager arrives and its listener
\* calls captureCurrentWindow, which runs up to its first await (line 66);
\* a CAPTURE_CURRENT_WINDOW message is ReceiveCaptureMessage
StartCapture ==
  /\ pc = "idle"
  /\ env.captures < MaxCaptures
  /\ pc' = "getSettings"
  /\ cap' = [InitCap EXCEPT !.startedAt = env.clock]
  /\ hist' = StartedHist("command")
  /\ env' = [env EXCEPT !.captures = @ + 1, !.clock = @ + 1]
  /\ UNCHANGED <<storeVars, win, nextTabId, restoreVars>>
  /\ UNCHANGED pureVars

\* line 66: await getSettings()
GetSettings ==
  /\ pc = "getSettings"
  /\ \E ok \in BOOLEAN :
       IF ok
         THEN /\ pc' = "windowsGetCurrent"
              /\ cap' = [cap EXCEPT !.settings = DecodeSettings(settingsStore)]
              /\ hist' = hist
         ELSE Throw("getSettings", "storage get failed")
  /\ UNCHANGED <<storeVars, win, nextTabId, env, restoreVars>>
  /\ UNCHANGED pureVars

\* lines 67-69: await windowsGetCurrent(); a window without a numeric id throws
WindowsGetCurrent ==
  /\ pc = "windowsGetCurrent"
  /\ \E r \in {"window", "no id", "error"} :
       CASE r = "window" -> /\ pc' = "tabsQuery"
                            /\ UNCHANGED <<cap, hist>>
         [] r = "no id" -> Throw("windowsGetCurrent", "No current window")
         [] r = "error" -> Throw("windowsGetCurrent", "windows.getCurrent failed")
  /\ UNCHANGED <<storeVars, win, nextTabId, env, restoreVars>>
  /\ UNCHANGED pureVars

\* lines 72-120: await tabsQuery(), then the plan
TabsQueryStep ==
  /\ pc = "tabsQuery"
  /\ \E ok \in BOOLEAN :
       IF ok
         THEN LET tabs == TabsQuery(win)
                  plan == buildCapturePlan(tabs, cap.settings)
              IN /\ pc' = AfterPlan(plan)
                 /\ cap' = [cap EXCEPT !.tabs = tabs, !.plan = plan,
                              !.info = IF Len(plan.items) = 0
                                         THEN Some(EmptyPlanInfo(cap.startedAt, plan))
                                         ELSE None]
                 /\ hist' = hist
         ELSE Throw("tabsQuery", "tabs.query failed")
  /\ UNCHANGED <<storeVars, win, nextTabId, env, restoreVars>>
  /\ UNCHANGED pureVars

\* line 123 / storage.ts line 57: addSession awaits getAllSessions()
AddSessionGet ==
  /\ pc = "addSession.get"
  /\ \E ok \in BOOLEAN :
       IF ok
         THEN /\ pc' = "addSession.set"
              /\ cap' = [cap EXCEPT !.sessions = sessionsStore]
              /\ hist' = hist
         ELSE Throw("addSession", "storage get failed")
  /\ UNCHANGED <<storeVars, win, nextTabId, env, restoreVars>>
  /\ UNCHANGED pureVars

\* the step after addSession returned (lines 130-139, 35-38)
AfterAddSession(closeTabIds) ==
  IF ClosesTabs(closeTabIds) THEN "tabsRemove.batch" ELSE "setLastCapture"

\* line 123-128 / storage.ts lines 58-66: addSession awaits setAllSessions()
AddSessionSet ==
  /\ pc = "addSession.set"
  /\ \E ok \in BOOLEAN :
       IF ok
         THEN LET created ==
                    CreatedSession(
                      [id |-> None,
                       title |-> formatSessionTitle(cap.settings.sessionNamePrefix,
                                                    cap.startedAt),
                       createdAt |-> cap.startedAt,
                       skippedCount |-> cap.plan.skippedCount,
                       items |-> cap.plan.items],
                      env.nextSessionId)
                  next == AfterAddSession(cap.plan.closeTabIds)
              IN /\ sessionsStore' = PrependSession(created, cap.sessions)
                 /\ env' = [env EXCEPT !.nextSessionId = @ + 1]
                 /\ pc' = next
                 /\ cap' = [cap EXCEPT !.created = Some(created),
                              !.info = IF next = "setLastCapture"
                                         THEN Some(FinalInfo(cap.startedAt, cap.plan,
                                                     created, <<>>, <<>>, None))
                                         ELSE None]
                 /\ hist' = [hist EXCEPT !.addDone = TRUE]
         ELSE /\ Throw("addSession", "storage set failed")
              /\ UNCHANGED <<sessionsStore, env>>
  /\ UNCHANGED <<lastCaptureStore, settingsStore, win, nextTabId, restoreVars>>
  /\ UNCHANGED pureVars

\* a tabsRemove call as the history keeps it
RemoveCall(ids, ok) == [ids |-> ids, afterAdd |-> IsSome(cap.created), ok |-> ok]

\* removeTabsSafely returned: the step after it (lines 136-158)
FinishClose(closedTabIds, failedTabIds, closeError) ==
  [cap EXCEPT !.closedTabIds = closedTabIds, !.failedTabIds = failedTabIds,
     !.closeError = closeError,
     !.info = Some(FinalInfo(cap.startedAt, cap.plan, Get(cap.created),
                             closedTabIds, failedTabIds, closeError))]

\* service-worker.ts lines 41-46: the single batched tabsRemove(closeTabIds)
RemoveBatch ==
  /\ pc = "tabsRemove.batch"
  /\ LET ids == cap.plan.closeTabIds IN
     \E ok \in BOOLEAN :
       IF ok
         THEN /\ CanRemoveAll(ids, win)
              /\ win' = Reactivate(WithoutTabs(win, SeqToSet(ids)))
              /\ hist' = [hist EXCEPT !.removeCalls = Append(@, RemoveCall(ids, ok)),
                            !.closed = @ \cup SeqToSet(ids)]
              /\ cap' = FinishClose(ids, <<>>, None)
              /\ pc' = "setLastCapture"
         ELSE LET gone == IF CanRemoveAll(ids, win) THEN {}
                          ELSE RemovablePrefix(ids, TabIds(win))
              IN /\ win' = Reactivate(WithoutTabs(win, gone))
                 /\ hist' = [hist EXCEPT !.removeCalls = Append(@, RemoveCall(ids, ok)),
                               !.closed = @ \cup gone]
                 /\ cap' = [cap EXCEPT !.closeError = Some("tabs.remove failed"),
                              !.closedTabIds = <<>>, !.failedTabIds = <<>>, !.i = 1]
                 /\ pc' = "tabsRemove.each"
  /\ UNCHANGED <<storeVars, nextTabId, env, restoreVars>>
  /\ UNCHANGED pureVars

\* the fallback gives up at the first handle whose remove fails: the
\* handles after it get no attempt
RemoveEach_StopsAtFailure ==
  /\ pc = "tabsRemove.each"
  /\ LET id == cap.plan.closeTabIds[cap.i]
         last == cap.i = Len(cap.plan.closeTabIds)
     IN \E ok \in BOOLEAN :
       LET closedTabIds == IF ok THEN Append(cap.closedTabIds, id) ELSE cap.closedTabIds
           failedTabIds == IF ok THEN cap.failedTabIds ELSE Append(cap.failedTabIds, id)
       IN /\ ok => id \in TabIds(win)
          /\ win' = IF ok THEN Reactivate(WithoutTabs(win, {id})) ELSE win
          /\ hist' = [hist EXCEPT !.removeCalls = Append(@, RemoveCall(<<id>>, ok)),
                        !.closed = IF ok THEN @ \cup {id} ELSE @]
          /\ IF last \/ ~ok
               THEN /\ cap' = FinishClose(closedTabIds, failedTabIds, cap.closeError)
                    /\ pc' = "setLastCapture"
               ELSE /\ cap' = [cap EXCEPT !.closedTabIds = closedTabIds,
                                 !.failedTabIds = failedTabIds, !.i = @ + 1]
                    /\ pc' = "tabsRemove.each"
  /\ UNCHANGED <<storeVars, nextTabId, env, restoreVars>>
  /\ UNCHANGED pureVars

\* service-worker.ts lines 50-59: the fallback, one tabsRemove([id]) per handle
RemoveEach ==
  /\ pc = "tabsRemove.each"
  /\ LET id == cap.plan.closeTabIds[cap.i]
         last == cap.i = Len(cap.plan.closeTabIds)
     IN \E ok \in BOOLEAN :
       LET closedTabIds == IF ok THEN Append(cap.closedTabIds, id) ELSE cap.closedTabIds
           failedTabIds == IF ok THEN cap.failedTabIds ELSE Append(cap.failedTabIds, id)
       IN /\ ok => id \in TabIds(win)
          /\ win' = IF ok THEN Reactivate(WithoutTabs(win, {id})) ELSE win
          /\ hist' = [hist EXCEPT !.removeCalls = Append(@, RemoveCall(<<id>>, ok)),
                        !.closed = IF ok THEN @ \cup {id} ELSE @]
          /\ IF last
               THEN /\ cap' = FinishClose(closedTabIds, failedTabIds, cap.closeError)
                    /\ pc' = "setLastCapture"
               ELSE /\ cap' = [cap EXCEPT !.closedTabIds = closedTabIds,
                                 !.failedTabIds = failedTabIds, !.i = @ + 1]
                    /\ pc' = "tabsRemove.each"
  /\ UNCHANGED <<storeVars, nextTabId, env, restoreVars>>
  /\ UNCHANGED pureVars

\* line 198: the ok of the CAPTURE_CURRENT_WINDOW response for info
ResponseOk(info) == ~IsSome(info.error) /\ info.capturedCount > 0

\* captureCurrentWindow returns info
Return(info) ==
  [hist EXCEPT !.outcome = "returned", !.returned = Some(info)]

\* what the listener does once captureCurrentWindow has returned: the
\* command listener goes on to openManager (line 186); the continuation
\* of the message listener is CaptureSettles
AfterReturn(h) == IF h.trigger = "command" THEN "openManager" ELSE "idle"

\* lines 118-119 and 159-160: await setLastCapture(info) inside the try block
SetLastCapture ==
  /\ pc = "setLastCapture"
  /\ \E ok \in BOOLEAN :
       IF ok
         THEN /\ lastCaptureStore' = cap.info
              /\ hist' = [Return(Get(cap.info)) EXCEPT !.setCalls = @ + 1,
                            !.writes = Append(@, Get(cap.info))]
              /\ pc' = AfterReturn(hist)
              /\ cap' = cap
         ELSE /\ pc' = "catch.setLastCapture"
              /\ cap' = [cap EXCEPT !.info =
                           Some(CaughtInfo(cap.startedAt, "storage set failed"))]
              /\ hist' = [hist EXCEPT !.setCalls = @ + 1,
                            !.caught = Some("storage set failed"),
                            !.thrownBy = "setLastCapture"]
              /\ UNCHANGED lastCaptureStore
  /\ UNCHANGED <<sessionsStore, settingsStore, win, nextTabId, env, restoreVars>>
  /\ UNCHANGED pureVars

\* lines 177-178: await setLastCapture(info) in the catch block; when it
\* throws too, the promise of captureCurrentWindow rejects
CatchSetLastCapture ==
  /\ pc = "catch.setLastCapture"
  /\ \E ok \in BOOLEAN :
       IF ok
         THEN /\ lastCaptureStore' = cap.info
              /\ hist' = [Return(Get(cap.info)) EXCEPT !.setCalls = @ + 1,
                            !.writes = Append(@, Get(cap.info))]
              /\ pc' = AfterReturn(hist)
         ELSE /\ hist' = [hist EXCEPT !.setCalls = @ + 1, !.outcome = "rejected"]
              /\ pc' = "idle"
              /\ UNCHANGED lastCaptureStore
  /\ cap' = cap
  /\ UNCHANGED <<sessionsStore, settingsStore, win, nextTabId, env, restoreVars>>
  /\ UNCHANGED pureVars

\* The listener is suspended, and the user can act, at every await of
\* captureCurrentWindow and of openManager
UserCanAct == pc # "idle"

\* lines 27-33: runtimeGetURL of the page openManager or openOptions opens
PageUrl(type) ==
  IF type = "OPEN_MANAGER"
    THEN <<"chrome-extension://", "pages/manager/index.html">>
    ELSE <<"chrome-extension://", "pages/options/index.html">>

\* the tab tabsCreate({url}) adds to the current window: it is active
PageTab(id, type) ==
  [MkTab(TRUE, id, Some(PageUrl(type)), None, None, FALSE) EXCEPT !.active = TRUE]

\* the URLs of the saved tabs a Manager page shows
SavedTabUrls == {HttpsB}

\* the tab chrome.tabs.create({url, active}) adds to the current window
OpenedTab(id, url, active) ==
  [MkTab(TRUE, id, Some(url), None, None, FALSE) EXCEPT !.active = active]

\* a call of the service worker or of restoreTabs is suspended at an await
Suspended ==
  \/ pc # "idle"
  \/ rpc \notin {"idle", "done"}
  \/ message.pc \notin {"idle", "ended"}

\* a page calls chrome.tabs.create without waiting for it, while a call is
\* suspended at any of its awaits; nothing keeps a page from it
PageOpens(tab) ==
  /\ Suspended
  /\ env.userOps < MaxUserOps
  /\ win' = AddTab(win, tab)
  /\ nextTabId' = nextTabId + 1
  /\ env' = [env EXCEPT !.userOps = @ + 1]
  /\ UNCHANGED <<storeVars, pc, cap, hist, restoreVars>>
  /\ UNCHANGED pureVars

\* managerApp.tsx lines 138-140: the buttons "Open tab" and "Open bg" of a
\* saved tab call chrome.tabs.create({url, active: !background})
onOpenTab ==
  \E url \in SavedTabUrls, background \in BOOLEAN :
    PageOpens(OpenedTab(nextTabId, url, ~background))

\* managerApp.tsx lines 235-239: the button "Options" of the Manager page
\* opens the options page
OptionsButton == PageOpens(PageTab(nextTabId, "OPEN_OPTIONS"))

\* optionsApp.tsx lines 108-112: the button "Back to Manager" of the options
\* page opens the Manager page
BackToManagerButton == PageOpens(PageTab(nextTabId, "OPEN_MANAGER"))

\* the user closes a tab while the capture is suspended at an await
UserClosesTab ==
  /\ UserCanAct
  /\ env.userOps < MaxUserOps
  /\ \E id \in TabIds(win) :
       win' = Reactivate(WithoutTabs(win, {id}))
  /\ env' = [env EXCEPT !.userOps = @ + 1]
  /\ UNCHANGED <<storeVars, nextTabId, pc, cap, hist, restoreVars>>
  /\ UNCHANGED pureVars

\* the stored settings an options page can have written
StoredSettings ==
  {None} \cup
  { Some([defaultSettings EXCEPT !.keepActiveTab = k, !.excludePinnedTabs = x])
    : <<k, x>> \in (BOOLEAN \X BOOLEAN) \ {<<FALSE, TRUE>>} }

----------------------------------------------------------------------------
(* restoreTabs (restore.ts) *)

\* restore.ts line 21
normalizeUrlForDuplicateCheck(url) == Trim(url)

RestoreTargets == {"current-window", "new-window", "new-window-tab-group"}

\* the handle of the current window and of a window that restoreTabs creates
CurrentWindowId == 1
CreatedWindowId == 2

\* item URLs as a session can hold them (an import keeps any string)
ItemUrls ==
  { HttpsA, <<" ", "https://", "a.com", "\n">>, HttpsB, <<" ">> }

MkItem(url) == [title |-> url, url |-> url, favIconUrl |-> None]

RECURSIVE SeqsUpTo(_, _)
SeqsUpTo(S, n) ==
  IF n = 0 THEN {<<>>}
  ELSE LET shorter == SeqsUpTo(S, n - 1) IN
    shorter \cup { Append(q, x) : q \in { r \in shorter : Len(r) = n - 1 }, x \in S }

\* the requests of the model
Requests ==
  { [items |-> [k \in 1..Len(urls) |-> MkItem(urls[k])], target |-> t,
     skipDuplicates |-> d, openInBackground |-> b]
    : urls \in SeqsUpTo(ItemUrls, MaxItems), t \in RestoreTargets,
      d \in BOOLEAN, b \in BOOLEAN }

\* the current window a restore can start in
RestoreWindows ==
  { << [MkTab(TRUE, 1, Some(HttpsA), Some(<<"A">>), None, FALSE) EXCEPT !.active = TRUE] >>,
    << [MkTab(TRUE, 1, Some(HttpsB), None, None, TRUE) EXCEPT !.active = TRUE],
       MkTab(TRUE, 2, None, None, None, FALSE) >> }

\* the window is created with a URL of the session in it
BlankWindow_WithUrl(id) ==
  << [MkTab(TRUE, id, Some(HttpsA), None, None, FALSE) EXCEPT !.active = TRUE] >>

\* the tab of a window made by chrome.windows.create({focused})
BlankWindow(id) ==
  << [MkTab(TRUE, id, Some(<<"chrome://", "newtab/">>), None, None, FALSE)
        EXCEPT !.active = TRUE] >>

\* lines 116-119 and 130-133: the trimmed, non-empty URLs of the window's tabs
RECURSIVE InitialUrls(_)
InitialUrls(tabs) ==
  IF tabs = <<>> THEN {}
  ELSE LET t == Head(tabs)
           u == IF IsSome(t.url) THEN normalizeUrlForDuplicateCheck(Get(t.url)) ELSE <<>>
       IN (IF u # <<>> THEN {u} ELSE {}) \cup InitialUrls(Tail(tabs))

\* the locals of restoreTabs before it runs
InitRs ==
  [windowId |-> None, initialUrls |-> {}, seenUrls |-> {},
   openedTabIds |-> <<>>, failedUrls |-> <<>>,
   openedCount |-> 0, skippedDuplicatesCount |-> 0, failedCount |-> 0,
   i |-> 1, url |-> <<>>, groupId |-> None, groupError |-> None]

\* what the running restore has done so far
InitRhist ==
  [started |-> FALSE,
   events |-> <<>>,          \* the calls and callbacks of the restore, in order
   startTabs |-> <<>>,       \* the tabs of the target window when it was resolved
   outcome |-> "none",       \* "returned" or "rejected"
   result |-> None]          \* the RestoreResult returned

InitReq ==
  [items |-> <<>>, target |-> "current-window", skipDuplicates |-> FALSE,
   openInBackground |-> FALSE]

\* one entry of the history: a call to the browser or to onProgress
Event(kind, i, url, id, progress) ==
  [kind |-> kind, i |-> i, url |-> url, id |-> id, progress |-> progress]

\* a failed open is reported as an opened tab too
Progress_FailedAsOpened(r, phase) ==
  [total |-> Len(req.items), openedCount |-> r.openedCount + r.failedCount,
   skippedDuplicatesCount |-> r.skippedDuplicatesCount,
   failedCount |-> r.failedCount, phase |-> phase]

\* the RestoreProgress passed to onProgress
Progress(r, phase) ==
  [total |-> Len(req.items), openedCount |-> r.openedCount,
   skippedDuplicatesCount |-> r.skippedDuplicatesCount,
   failedCount |-> r.failedCount, phase |-> phase]

OnProgress(h, i, r, phase) ==
  [h EXCEPT !.events = Append(@, Event("onProgress", i, <<>>, 0, Some(Progress(r, phase))))]

\* the window the restore opens tabs in
TargetTabs == IF req.target = "current-window" THEN win ELSE Get(newWin)

\* restoreTabs rejects
RestoreThrows ==
  /\ rpc' = "done"
  /\ rhist' = [rhist EXCEPT !.outcome = "rejected"]
  /\ rs' = rs

\* the seen set starts empty instead of from the window's URLs
EnterLoop_SeenEmpty(h, r, urls) ==
  /\ rpc' = "loop"
  /\ rs' = [r EXCEPT !.initialUrls = urls, !.seenUrls = {}]
  /\ rhist' = OnProgress(h, 0, r, "opening")

\* lines 139-153: the locals are set up and the first progress event is sent
EnterLoop(h, r, urls) ==
  /\ rpc' = "loop"
  /\ rs' = [r EXCEPT !.initialUrls = urls, !.seenUrls = urls]
  /\ rhist' = OnProgress(h, 0, r, "opening")

\* restoreTabs is called
StartRestore ==
  /\ rpc = "idle"
  /\ ~rhist.started
  /\ rpc' = "resolveWindow"
  /\ rhist' = [rhist EXCEPT !.started = TRUE]
  /\ UNCHANGED <<storeVars, win, nextTabId, captureVars, req, rs, newWin>>
  /\ UNCHANGED pureVars

\* lines 110-113: target current-window, await windowsGetCurrent()
ResolveCurrentWindow ==
  /\ rpc = "resolveWindow"
  /\ req.target = "current-window"
  /\ \E r \in {"window", "no id", "error"} :
       IF r = "window"
         THEN LET r1 == [rs EXCEPT !.windowId = Some(CurrentWindowId)]
                  h1 == [rhist EXCEPT !.startTabs = win]
              IN IF req.skipDuplicates
                   THEN /\ rpc' = "tabsQuery"
                        /\ rs' = r1
                        /\ rhist' = h1
                   ELSE EnterLoop(h1, r1, {})
         ELSE RestoreThrows
  /\ UNCHANGED <<storeVars, win, nextTabId, captureVars, req, newWin>>
  /\ UNCHANGED pureVars

\* lines 121-126: the other targets, await windowsCreate({focused})
CreateWindow ==
  /\ rpc = "resolveWindow"
  /\ req.target # "current-window"
  /\ \E r \in {"window", "no id", "error"} :
       CASE r = "window" ->
              LET r1 == [rs EXCEPT !.windowId = Some(CreatedWindowId)]
                  h1 == [rhist EXCEPT !.startTabs = BlankWindow(nextTabId), !.events =
                           Append(@, Event("windowsCreate", 0, <<>>, CreatedWindowId, None))]
              IN /\ newWin' = Some(BlankWindow(nextTabId))
                 /\ nextTabId' = nextTabId + 1
                 /\ IF req.skipDuplicates
                      THEN /\ rpc' = "tabsQuery"
                           /\ rs' = r1
                           /\ rhist' = h1
                      ELSE EnterLoop(h1, r1, {})
         [] r = "no id" ->
              \* the window exists, but the call gave no numeric id
              /\ newWin' = Some(BlankWindow(nextTabId))
              /\ nextTabId' = nextTabId + 1
              /\ rpc' = "done"
              /\ rs' = rs
              /\ rhist' = [rhist EXCEPT !.outcome = "rejected", !.events =
                             Append(@, Event("windowsCreate", 0, <<>>, 0, None))]
         [] r = "error" ->
              /\ RestoreThrows
              /\ UNCHANGED <<newWin, nextTabId>>
  /\ UNCHANGED <<storeVars, win, captureVars, req>>
  /\ UNCHANGED pureVars

\* lines 114-120 and 128-134: await tabsQuery({windowId}) for the seen set
RestoreTabsQuery ==
  /\ rpc = "tabsQuery"
  /\ \E ok \in BOOLEAN :
       IF ok THEN EnterLoop(rhist, rs, InitialUrls(TabsQuery(TargetTabs)))
       ELSE RestoreThrows
  /\ UNCHANGED <<storeVars, win, nextTabId, captureVars, req, newWin>>
  /\ UNCHANGED pureVars

\* the URL of the item is used as stored, not trimmed
LoopUrl_Raw == req.items[rs.i].url

\* the item the loop is at, and its trimmed URL (lines 156-157)
LoopUrl == normalizeUrlForDuplicateCheck(req.items[rs.i].url)
InLoop == rpc = "loop" /\ rs.i <= Len(req.items)

\* line 160: the item is skipped as a duplicate
IsDuplicate(url, seenUrls) == req.skipDuplicates /\ url \in seenUrls

\* the URL about to be opened is not remembered
SeenOnOpen_NotAdded(url, seenUrls) == seenUrls

\* line 173: the seen set when the item is about to be opened
SeenOnOpen(url, seenUrls) ==
  IF req.skipDuplicates THEN seenUrls \cup {url} ELSE seenUrls

\* the URL whose open failed stays in the seen set
SeenOnFailure_Kept(url, seenUrls) == seenUrls

\* line 187: the seen set after the open failed
SeenOnFailure(url, seenUrls) ==
  IF req.skipDuplicates THEN seenUrls \ {url} ELSE seenUrls

\* an item whose URL is empty is counted as a skipped duplicate
LoopSkipEmpty_Counted ==
  /\ InLoop
  /\ LoopUrl = <<>>
  /\ rs' = [rs EXCEPT !.i = @ + 1, !.skippedDuplicatesCount = @ + 1]
  /\ UNCHANGED <<storeVars, win, nextTabId, captureVars, rpc, req, rhist, newWin>>
  /\ UNCHANGED pureVars

\* line 158: an item whose URL is empty after trimming is passed over
LoopSkipEmpty ==
  /\ InLoop
  /\ LoopUrl = <<>>
  /\ rs' = [rs EXCEPT !.i = @ + 1]
  /\ UNCHANGED <<storeVars, win, nextTabId, captureVars, rpc, req, rhist, newWin>>
  /\ UNCHANGED pureVars

\* a duplicate is counted but no progress is reported for it
LoopSkipDuplicate_Silent ==
  /\ InLoop
  /\ LoopUrl # <<>>
  /\ IsDuplicate(LoopUrl, rs.seenUrls)
  /\ rs' = [rs EXCEPT !.skippedDuplicatesCount = @ + 1, !.i = @ + 1]
  /\ UNCHANGED <<storeVars, win, nextTabId, captureVars, rpc, req, rhist, newWin>>
  /\ UNCHANGED pureVars

\* lines 160-170: a URL already seen is counted and reported, not opened
LoopSkipDuplicate ==
  /\ InLoop
  /\ LoopUrl # <<>>
  /\ IsDuplicate(LoopUrl, rs.seenUrls)
  /\ LET r1 == [rs EXCEPT !.skippedDuplicatesCount = @ + 1] IN
       /\ rhist' = OnProgress(rhist, rs.i, r1, "opening")
       /\ rs' = [r1 EXCEPT !.i = @ + 1]
  /\ UNCHANGED <<storeVars, win, nextTabId, captureVars, rpc, req, newWin>>
  /\ UNCHANGED pureVars

\* lines 172-180: the URL joins the seen set and tabsCreate is called
LoopOpen ==
  /\ InLoop
  /\ LoopUrl # <<>>
  /\ ~IsDuplicate(LoopUrl, rs.seenUrls)
  /\ rpc' = "tabsCreate"
  /\ rs' = [rs EXCEPT !.seenUrls = SeenOnOpen(LoopUrl, @), !.url = LoopUrl]
  /\ rhist' = [rhist EXCEPT !.events =
                 Append(@, Event("tabsCreate", rs.i, LoopUrl, Get(rs.windowId), None))]
  /\ UNCHANGED <<storeVars, win, nextTabId, captureVars, req, newWin>>
  /\ UNCHANGED pureVars

\* the tab chrome.tabs.create({windowId, url, active}) adds to the window
CreatedTab(id, url) ==
  [MkTab(TRUE, id, Some(url), None, None, FALSE) EXCEPT !.active = ~req.openInBackground]

\* lines 181-182 and 192-198: tabsCreate fulfilled; the tab is counted (its
\* handle is kept when it is a number) and the progress is reported
CreateSucceeds(withId) ==
  LET r1 == [rs EXCEPT !.openedCount = @ + 1,
               !.openedTabIds = IF withId THEN Append(@, nextTabId) ELSE @]
      h1 == [rhist EXCEPT !.events =
               Append(@, Event("created", rs.i, rs.url,
                               IF withId THEN nextTabId ELSE 0, None))]
  IN /\ rs' = [r1 EXCEPT !.i = @ + 1]
     /\ rhist' = OnProgress(h1, rs.i, r1, "opening")
     /\ rpc' = "loop"
     /\ nextTabId' = nextTabId + 1
     /\ IF req.target = "current-window"
          THEN /\ win' = AddTab(win, CreatedTab(nextTabId, rs.url))
               /\ newWin' = newWin
          ELSE /\ newWin' = Some(AddTab(Get(newWin), CreatedTab(nextTabId, rs.url)))
               /\ win' = win

\* the rejection of tabsCreate is not caught: restoreTabs rejects
CreateFails_Rethrows ==
  /\ rpc' = "done"
  /\ rs' = rs
  /\ rhist' = [rhist EXCEPT !.outcome = "rejected", !.events =
                 Append(@, Event("createFailed", rs.i, rs.url, 0, None))]
  /\ UNCHANGED <<win, newWin, nextTabId>>

\* lines 183-198: tabsCreate rejected; the failure is counted, the URL leaves
\* the seen set, the progress is reported and the loop goes on
CreateFails ==
  LET r1 == [rs EXCEPT !.failedCount = @ + 1, !.failedUrls = Append(@, rs.url),
               !.seenUrls = SeenOnFailure(rs.url, @)]
      h1 == [rhist EXCEPT !.events =
               Append(@, Event("createFailed", rs.i, rs.url, 0, None))]
  IN /\ rs' = [r1 EXCEPT !.i = @ + 1]
     /\ rhist' = OnProgress(h1, rs.i, r1, "opening")
     /\ rpc' = "loop"
     /\ UNCHANGED <<win, newWin, nextTabId>>

\* lines 175-200: the awaited tabsCreate settles (the sleep of line 200 is
\* 0 ms below 50 items)
TabsCreateSettles ==
  /\ rpc = "tabsCreate"
  /\ \/ \E withId \in BOOLEAN : CreateSucceeds(withId)
     \/ CreateFails
  /\ UNCHANGED <<storeVars, captureVars, req>>
  /\ UNCHANGED pureVars

\* lines 238-247: the RestoreResult
RestoreResult(r) ==
  [windowId |-> Get(r.windowId), openedTabIds |-> r.openedTabIds,
   openedCount |-> r.openedCount,
   skippedDuplicatesCount |-> r.skippedDuplicatesCount,
   failedCount |-> r.failedCount, failedUrls |-> r.failedUrls,
   groupId |-> r.groupId, groupError |-> r.groupError]

\* the result is returned without the final progress event
Finish_Silent(h, r) ==
  /\ rpc' = "done"
  /\ rs' = r
  /\ rhist' = [h EXCEPT !.outcome = "returned", !.result = Some(RestoreResult(r))]

\* lines 230-247: the final progress event, then the result is returned
Finish(h, r) ==
  /\ rpc' = "done"
  /\ rs' = r
  /\ rhist' = [OnProgress(h, 0, r, "done") EXCEPT !.outcome = "returned",
                 !.result = Some(RestoreResult(r))]

\* lines 203-236, targets without a group: the loop is over
LoopExit ==
  /\ rpc = "loop"
  /\ rs.i > Len(req.items)
  /\ req.target # "new-window-tab-group"
  /\ Finish(rhist, rs)
  /\ UNCHANGED <<storeVars, win, nextTabId, captureVars, req, newWin>>
  /\ UNCHANGED pureVars

\* lines 206-219, target new-window-tab-group: the grouping event, then the
\* capability check and, with tabs to group, the call of tabsGroup
LoopExitGrouping ==
  /\ rpc = "loop"
  /\ rs.i > Len(req.items)
  /\ req.target = "new-window-tab-group"
  /\ LET h1 == OnProgress(rhist, 0, rs, "grouping") IN
     \E canUseTabGroups \in BOOLEAN :
       IF ~canUseTabGroups
         THEN Finish(h1, [rs EXCEPT !.groupError =
                            Some("Tab groups are not supported in this browser.")])
       ELSE IF Len(rs.openedTabIds) > 0
         THEN /\ rpc' = "tabsGroup"
              /\ rs' = rs
              /\ rhist' = [h1 EXCEPT !.events =
                             Append(@, Event("tabsGroup", 0, <<>>, 0, None))]
       ELSE Finish(h1, rs)
  /\ UNCHANGED <<storeVars, win, nextTabId, captureVars, req, newWin>>
  /\ UNCHANGED pureVars

NewGroupId == 1

\* the rejection of tabsGroup is not caught: restoreTabs rejects
TabsGroupSettles_Throws ==
  /\ rpc = "tabsGroup"
  /\ \E ok \in BOOLEAN :
       IF ok
         THEN /\ rpc' = "tabGroupsUpdate"
              /\ rs' = [rs EXCEPT !.groupId = Some(NewGroupId)]
              /\ rhist' = [rhist EXCEPT !.events =
                             Append(@, Event("tabGroupsUpdate", 0, <<>>, NewGroupId, None))]
         ELSE RestoreThrows
  /\ UNCHANGED <<storeVars, win, nextTabId, captureVars, req, newWin>>
  /\ UNCHANGED pureVars

\* lines 219-226: tabsGroup settles; on success tabGroupsUpdate is called
TabsGroupSettles ==
  /\ rpc = "tabsGroup"
  /\ \E ok \in BOOLEAN :
       IF ok
         THEN /\ rpc' = "tabGroupsUpdate"
              /\ rs' = [rs EXCEPT !.groupId = Some(NewGroupId)]
              /\ rhist' = [rhist EXCEPT !.events =
                             Append(@, Event("tabGroupsUpdate", 0, <<>>, NewGroupId, None))]
         ELSE Finish(rhist, [rs EXCEPT !.groupError = Some("tabs.group failed")])
  /\ UNCHANGED <<storeVars, win, nextTabId, captureVars, req, newWin>>
  /\ UNCHANGED pureVars

\* lines 220-226: tabGroupsUpdate settles
TabGroupsUpdateSettles ==
  /\ rpc = "tabGroupsUpdate"
  /\ \E ok \in BOOLEAN :
       IF ok THEN Finish(rhist, rs)
       ELSE Finish(rhist, [rs EXCEPT !.groupError = Some("tabGroups.update failed")])
  /\ UNCHANGED <<storeVars, win, nextTabId, captureVars, req, newWin>>
  /\ UNCHANGED pureVars

InitRestore ==
  /\ sessionsStore = <<>>
  /\ lastCaptureStore = None
  /\ settingsStore = None
  /\ win \in RestoreWindows
  /\ nextTabId = FirstFreeTabId
  /\ pc = "idle"
  /\ cap = InitCap
  /\ hist = InitHist
  /\ env = InitEnv
  /\ rpc = "idle"
  /\ req \in Requests
  /\ rs = InitRs
  /\ rhist = InitRhist
  /\ newWin = None
  /\ planTabs = <<>>
  /\ planSettings = defaultSettings
  /\ planResult = None
  /\ queueItems = <<>>
  /\ queueSelected = None
  /\ queueResult = None
  /\ jsonText = None
  /\ exported = InitExported
  /\ imp = InitImp
  /\ other = InitOther
  /\ urlInput = <<>>
  /\ urlResult = None
  /\ storeOps = InitStoreOps
  /\ message = InitMessage

NextRestore ==
  \/ StartRestore
  \/ ResolveCurrentWindow
  \/ CreateWindow
  \/ RestoreTabsQuery
  \/ LoopSkipEmpty
  \/ LoopSkipDuplicate
  \/ LoopOpen
  \/ TabsCreateSettles
  \/ LoopExit
  \/ LoopExitGrouping
  \/ TabsGroupSettles
  \/ TabGroupsUpdateSettles
  \/ onOpenTab
  \/ OptionsButton
  \/ BackToManagerButton

SpecRestore == InitRestore /\ [][NextRestore]_vars

----------------------------------------------------------------------------
(* buildCapturePlan called on its own, on tab lists in any order *)

PlanTab(hasId, id, index, url, title, pinned) ==
  [hasId |-> hasId, id |-> id, index |-> index, url |-> url, title |-> title,
   favIconUrl |-> None, pinned |-> pinned, active |-> FALSE]

\* the tabs the lists are made of: two with handles sharing an index, a
\* restricted URL, two without a handle sharing an index, a tab without url,
\* a second tab with a handle on the URL of the first; titles with white
\* space around them, empty, of white space only and missing
PlanTabPool ==
  << PlanTab(TRUE, 1, 1, Some(HttpsA), Some(<<" ", "A", " ">>), FALSE),
     PlanTab(TRUE, 2, 1, Some(HttpsB), Some(<<>>), TRUE),
     PlanTab(TRUE, 3, 0, Some(ChromeExt), None, FALSE),
     PlanTab(FALSE, 0, 2, Some(HttpsC), Some(<<" ">>), FALSE),
     PlanTab(FALSE, 0, 2, Some(<<" ", "https://", "a.com">>), None, FALSE),
     PlanTab(TRUE, 4, 0, None, Some(<<"N">>), FALSE),
     PlanTab(TRUE, 5, 3, Some(HttpsA), Some(<<"A2">>), FALSE) >>

\* sequences of at most n different elements of S
RECURSIVE InjectiveSeqs(_, _)
InjectiveSeqs(S, n) ==
  IF n = 0 THEN { <<>> }
  ELSE LET shorter == InjectiveSeqs(S, n - 1) IN
       shorter \cup
       { Append(q, x) : <<q, x>> \in
           { qx \in shorter \X S :
               /\ Len(qx[1]) = n - 1
               /\ \A k \in 1..Len(qx[1]) : qx[1][k] # qx[2] } }

\* a tab list: different tabs of the pool in any order, at most one active
PlanTabLists ==
  { [i \in 1..Len(q) |-> [PlanTabPool[q[i]] EXCEPT !.active = (i = a)]]
    : <<q, a>> \in
        { qa \in InjectiveSeqs(1..Len(PlanTabPool), MaxPlanTabs) \X (0..MaxPlanTabs) :
            qa[2] <= Len(qa[1]) } }

PlanSettings ==
  { [defaultSettings EXCEPT !.keepActiveTab = k, !.excludePinnedTabs = e]
    : <<k, e>> \in BOOLEAN \X BOOLEAN }

\* buildCapturePlan(planTabs, planSettings) returns
BuildPlan ==
  /\ planResult = None
  /\ planResult' = Some(buildCapturePlan(planTabs, planSettings))
  /\ UNCHANGED <<planTabs, planSettings, storeVars, win, nextTabId,
                 captureVars, restoreVars, queueVars, importVars, other,
                 urlVars, callVars>>

InitPlan ==
  /\ sessionsStore = <<>>
  /\ lastCaptureStore = None
  /\ settingsStore = None
  /\ win = <<>>
  /\ nextTabId = FirstFreeTabId
  /\ pc = "idle"
  /\ cap = InitCap
  /\ hist = InitHist
  /\ env = InitEnv
  /\ rpc = "idle"
  /\ req = InitReq
  /\ rs = InitRs
  /\ rhist = InitRhist
  /\ newWin = None
  /\ planTabs \in PlanTabLists
  /\ planSettings \in PlanSettings
  /\ planResult = None
  /\ queueItems = <<>>
  /\ queueSelected = None
  /\ queueResult = None
  /\ jsonText = None
  /\ exported = InitExported
  /\ imp = InitImp
  /\ other = InitOther
  /\ urlInput = <<>>
  /\ urlResult = None
  /\ storeOps = InitStoreOps
  /\ message = InitMessage

NextPlan == BuildPlan

SpecPlan == InitPlan /\ [][NextPlan]_vars

----------------------------------------------------------------------------
(* buildRestoreQueue (restore.ts), called on its own *)

\* items of the list buildRestoreQueue selects from
MaxQueueItems == 3
\* entries of a selection
MaxSelected == 4

\* a value of a selection: an integer v, the number v + 0.5, NaN or Infinity
IntIndex(v) == [kind |-> "int", v |-> v]
FracIndex(v) == [kind |-> "frac", v |-> v]
NaNIndex == [kind |-> "nan", v |-> 0]
InfinityIndex == [kind |-> "inf", v |-> 0]

\* line 29: typeof idx === 'number' && Number.isFinite(idx)
IsFiniteNumber(x) == x.kind \in {"int", "frac"}

\* lines 27-30: the Set of the finite values, in insertion order
RECURSIVE Wanted(_, _)
Wanted(selected, seen) ==
  IF selected = <<>> THEN <<>>
  ELSE LET x == Head(selected) IN
    IF IsFiniteNumber(x) /\ x \notin seen
      THEN <<x>> \o Wanted(Tail(selected), seen \cup {x})
      ELSE Wanted(Tail(selected), seen)

\* twice the number, to compare integers with halves
Twice(x) == 2 * x.v + (IF x.kind = "frac" THEN 1 ELSE 0)

\* the selection is left in insertion order
SortNumbers_Unsorted(numbers) == numbers

\* line 31: [...wanted].sort((a, b) => a - b)
RECURSIVE SortNumbers(_)
SortNumbers(numbers) ==
  IF numbers = <<>> THEN <<>>
  ELSE LET least == CHOOSE k \in 1..Len(numbers) :
                      \A j \in 1..Len(numbers) : Twice(numbers[k]) <= Twice(numbers[j])
           rest == [j \in 1..(Len(numbers) - 1) |->
                      IF j < least THEN numbers[j] ELSE numbers[j + 1]]
       IN <<numbers[least]>> \o SortNumbers(rest)

\* line 32: items[idx], undefined unless idx is an index of the array
ItemAt(items, x) ==
  IF x.kind = "int" /\ 0 <= x.v /\ x.v < Len(items)
    THEN Some(items[x.v + 1]) ELSE None

\* line 32: map and filter(Boolean)
RECURSIVE PresentItems(_, _)
PresentItems(items, ordered) ==
  IF ordered = <<>> THEN <<>>
  ELSE ItemAt(items, Head(ordered)) \o PresentItems(items, Tail(ordered))

\* lines 25-33; selectedIndices is optional
buildRestoreQueue(items, selectedIndices) ==
  IF ~IsSome(selectedIndices) THEN items
  ELSE PresentItems(items, SortNumbers(Wanted(Get(selectedIndices), {})))

QueueItemPool ==
  << MkItem(HttpsA), MkItem(HttpsB), MkItem(HttpsC), MkItem(ChromeExt),
     MkItem(<<"https://", "d.com">>) >>

QueueItemLists ==
  { SubSeq(QueueItemPool, 1, n) : n \in 0..MaxQueueItems }

\* the values a selection is made of: the integers from -1 to one past the
\* last index, a half, NaN and Infinity
QueueIndexValues ==
  { IntIndex(v) : v \in -1..MaxQueueItems }
    \cup { FracIndex(0), NaNIndex, InfinityIndex }

QueueSelections ==
  { None } \cup { Some(q) : q \in SeqsUpTo(QueueIndexValues, MaxSelected) }

\* buildRestoreQueue(queueItems, queueSelected) returns
BuildQueue ==
  /\ queueResult = None
  /\ queueResult' = Some(buildRestoreQueue(queueItems, queueSelected))
  /\ UNCHANGED <<queueItems, queueSelected, storeVars, win, nextTabId,
                 captureVars, restoreVars, planVars, importVars, other,
                 urlVars, callVars>>

InitQueue ==
  /\ sessionsStore = <<>>
  /\ lastCaptureStore = None
  /\ settingsStore = None
  /\ win = <<>>
  /\ nextTabId = FirstFreeTabId
  /\ pc = "idle"
  /\ cap = InitCap
  /\ hist = InitHist
  /\ env = InitEnv
  /\ rpc = "idle"
  /\ req = InitReq
  /\ rs = InitRs
  /\ rhist = InitRhist
  /\ newWin = None
  /\ planTabs = <<>>
  /\ planSettings = defaultSettings
  /\ planResult = None
  /\ queueItems \in QueueItemLists
  /\ queueSelected \in QueueSelections
  /\ queueResult = None
  /\ jsonText = None
  /\ exported = InitExported
  /\ imp = InitImp
  /\ other = InitOther
  /\ urlInput = <<>>
  /\ urlResult = None
  /\ storeOps = InitStoreOps
  /\ message = InitMessage

NextQueue == BuildQueue

SpecQueue == InitQueue /\ [][NextQueue]_vars

----------------------------------------------------------------------------
(* exportSessionAsJson and importSessionFromJson (storage.ts) *)

\* The number a numeral beyond the range of a double parses to.  Numbers of
\* the model are integers; this one, the largest, stands for it.
Infinity == 2147483647

\* JSON values: a type tag and a content
JNull == [t |-> "null", v |-> 0]
JUndefined == [t |-> "undefined", v |-> 0]
JStr(x) == [t |-> "string", v |-> x]
JArr(elems) == [t |-> "array", v |-> elems]
JObj(fields) == [t |-> "object", v |-> fields]
\* a numeral of a JSON text
JNumeral(n) == [t |-> "number", v |-> n]

\* JSON.stringify of a number: a number that is not finite is written null
JNum(n) == IF n = Infinity THEN JNull ELSE JNumeral(n)

\* JSON.stringify of a TabItem: a property that is undefined is left out
ItemJson(it) ==
  IF IsSome(it.favIconUrl)
    THEN JObj([title |-> JStr(it.title), url |-> JStr(it.url),
               favIconUrl |-> JStr(Get(it.favIconUrl))])
    ELSE JObj([title |-> JStr(it.title), url |-> JStr(it.url)])

\* JSON.stringify of a Session
SessionJson(session) ==
  JObj([id |-> JStr(session.id),
        title |-> JStr(session.title),
        createdAt |-> JNum(session.createdAt),
        skippedCount |-> JNum(session.skippedCount),
        items |-> JArr([i \in 1..Len(session.items) |-> ItemJson(session.items[i])])])

\* a text: one that is the JSON of a value, or one that is not JSON
JsonTextOf(value) == [syntax |-> "ok", value |-> value]
NotJsonText == [syntax |-> "bad", value |-> JNull]

\* line 155-156: JSON.stringify({ version: 1, exportedAt, session })
JSONstringify(exportedAt, session) ==
  JsonTextOf(JObj([version |-> JNum(1), exportedAt |-> JNum(exportedAt),
                   session |-> SessionJson(session)]))

\* line 162: JSON.parse, None when it throws
JSONparse(text) == IF text.syntax = "ok" THEN Some(text.value) ELSE None

\* arrays pass for records
isRecord_AllowsArrays(j) == j.t \in {"object", "array"}

\* lines 9-11: an object that is neither null nor an array
isRecord(j) == j.t = "object"

\* obj.key: undefined when the value has no such property
Field(j, key) ==
  IF j.t = "object" /\ key \in DOMAIN j.v THEN j.v[key] ELSE JUndefined

\* line 170: version !== 1
VersionIsOne(j) == j.t = "number" /\ j.v = 1

\* an entry without a string title is dropped as well
DecodeItem_DropsUntitled(it) ==
  IF ~isRecord(it) THEN None
  ELSE LET url == Field(it, "url")
           title == Field(it, "title")
           favIconUrl == Field(it, "favIconUrl")
       IN IF url.t # "string" \/ title.t # "string" THEN None
          ELSE Some([title |-> title.v,
                     url |-> url.v,
                     favIconUrl |-> IF favIconUrl.t = "string"
                                      THEN Some(favIconUrl.v) ELSE None])

\* lines 181-188: one element of items, None when it is dropped
DecodeItem(it) ==
  IF ~isRecord(it) THEN None
  ELSE LET url == Field(it, "url")
           title == Field(it, "title")
           favIconUrl == Field(it, "favIconUrl")
       IN IF url.t # "string" THEN None
          ELSE Some([title |-> IF title.t = "string" THEN title.v ELSE url.v,
                     url |-> url.v,
                     favIconUrl |-> IF favIconUrl.t = "string"
                                      THEN Some(favIconUrl.v) ELSE None])

RECURSIVE DecodeItems(_)
DecodeItems(elems) ==
  IF elems = <<>> THEN <<>>
  ELSE DecodeItem(Head(elems)) \o DecodeItems(Tail(elems))

\* lines 175-197: the argument of addSession
DecodeSession(sessionVal, now) ==
  LET createdAt == Field(sessionVal, "createdAt")
      title == Field(sessionVal, "title")
      itemsRaw == Field(sessionVal, "items")
      skippedCount == Field(sessionVal, "skippedCount")
  IN [id |-> None,
      title |-> IF title.t = "string" THEN title.v ELSE "Imported session",
      createdAt |-> IF createdAt.t = "number" THEN createdAt.v ELSE now,
      skippedCount |-> IF skippedCount.t = "number" THEN skippedCount.v ELSE 0,
      items |-> IF itemsRaw.t = "array" THEN DecodeItems(itemsRaw.v) ELSE <<>>]

\* lines 160-172: the error importSessionFromJson throws before it decodes,
\* None when it throws none
ImportError(text) ==
  LET parsed == JSONparse(text) IN
  IF ~IsSome(parsed) THEN Some("Invalid JSON")
  ELSE IF ~isRecord(Get(parsed)) THEN Some("Invalid JSON shape")
  ELSE IF ~VersionIsOne(Field(Get(parsed), "version"))
          \/ ~isRecord(Field(Get(parsed), "session"))
    THEN Some("Unsupported export format")
  ELSE None

\* sessions the store holds at the start: captured ones, a renamed one and
\* an imported one
StoredItemA ==
  [title |-> <<"A page">>, url |-> HttpsA, favIconUrl |-> Some(<<"https://", "a.com", "/icon">>)]
StoredItemB == [title |-> HttpsB, url |-> HttpsB, favIconUrl |-> None]

SessionPool ==
  << [id |-> 1, title |-> "Session 10", createdAt |-> 10, skippedCount |-> 1,
      items |-> <<StoredItemA, StoredItemB>>],
     [id |-> 2, title |-> "Work", createdAt |-> 20, skippedCount |-> 0,
      items |-> <<StoredItemB>>],
     [id |-> 3, title |-> "Imported session", createdAt |-> 30, skippedCount |-> 0,
      items |-> <<>>] >>

FirstFreeSessionId == Len(SessionPool) + 1

StoredSessionLists == InjectiveSeqs(SeqToSet(SessionPool), MaxStoredSessions)

\* a session of an export file as another program, or a hand, wrote it
WellFormedSessionJson ==
  JObj([title |-> JStr("From a file"), createdAt |-> JNumeral(40),
        skippedCount |-> JNumeral(2),
        items |-> JArr(<<ItemJson(StoredItemA)>>)])

\* the files the user may pick for an import
TextPool ==
  << NotJsonText,
     JsonTextOf(JNull),
     JsonTextOf(JArr(<<>>)),
     JsonTextOf(JStr("text")),
     JsonTextOf(JObj([session |-> WellFormedSessionJson])),
     JsonTextOf(JObj([version |-> JStr("1"), session |-> WellFormedSessionJson])),
     JsonTextOf(JObj([version |-> JNumeral(2), session |-> WellFormedSessionJson])),
     JsonTextOf(JObj([version |-> JNumeral(1)])),
     JsonTextOf(JObj([version |-> JNumeral(1), session |-> JNull])),
     JsonTextOf(JObj([version |-> JNumeral(1), session |-> JArr(<<>>)])),
     JsonTextOf(JObj([version |-> JNumeral(1), session |-> JStr("session")])),
     JsonTextOf(JObj([version |-> JNumeral(1), session |-> WellFormedSessionJson])),
     JsonTextOf(JObj([version |-> JNumeral(1),
                      session |-> JObj([note |-> JStr("no field of a session")])])),
     JsonTextOf(JObj([version |-> JNumeral(1),
                      session |-> JObj([title |-> JNumeral(5),
                                        createdAt |-> JStr("yesterday"),
                                        skippedCount |-> JNull,
                                        items |-> JArr(<<JNull,
                                                         JObj([url |-> JNumeral(7)]),
                                                         JObj([url |-> JStr(HttpsC)]),
                                                         ItemJson(StoredItemA)>>)])])),
     JsonTextOf(JObj([version |-> JNumeral(1),
                      session |-> JObj([title |-> JStr("Far future"),
                                        createdAt |-> JNumeral(Infinity),
                                        skippedCount |-> JNumeral(0),
                                        items |-> JArr(<<ItemJson(StoredItemB)>>)])])) >>

\* the user picks a file to import
PickFile ==
  /\ imp.pc = "idle"
  /\ jsonText = None
  /\ imp.calls < MaxImports
  /\ exported.outcome # "pending"
  /\ \E i \in 1..Len(TextPool) : jsonText' = Some(TextPool[i])
  /\ exported' = InitExported
  /\ UNCHANGED <<imp, storeVars, win, nextTabId, captureVars, restoreVars,
                 planVars, queueVars, other, urlVars, callVars>>

\* line 153: sessions.find((s) => s.id === sessionId)
RECURSIVE FindSession(_, _)
FindSession(sessions, sessionId) ==
  IF sessions = <<>> THEN None
  ELSE IF Head(sessions).id = sessionId THEN Some(Head(sessions))
  ELSE FindSession(Tail(sessions), sessionId)

\* lines 151-152: exportSessionAsJson(sessionId) is called, for the id of a
\* stored session or an id no session has, and awaits getAllSessions()
ExportCall ==
  /\ imp.pc = "idle"
  /\ jsonText = None
  /\ imp.calls < MaxImports
  /\ exported.outcome # "pending"
  /\ \E id \in { sessionsStore[k].id : k \in 1..Len(sessionsStore) } \cup {0} :
       exported' = [InitExported EXCEPT !.outcome = "pending", !.sessionId = id]
  /\ UNCHANGED <<jsonText, imp, storeVars, win, nextTabId, captureVars, restoreVars,
                 planVars, queueVars, other, urlVars, callVars>>

\* lines 152-156: getAllSessions() settles; the session is looked up in the
\* list read and written out with the time of that moment
ExportGet ==
  /\ exported.outcome = "pending"
  /\ \E ok \in BOOLEAN :
       LET found == FindSession(sessionsStore, exported.sessionId) IN
       IF ok /\ IsSome(found)
         THEN /\ jsonText' = Some(JSONstringify(env.clock, Get(found)))
              /\ exported' = [exported EXCEPT !.outcome = "resolved", !.session = found]
         ELSE /\ jsonText' = None
              /\ exported' = [exported EXCEPT !.outcome = "rejected"]
  /\ UNCHANGED <<imp, storeVars, win, nextTabId, captureVars, restoreVars,
                 planVars, queueVars, other, urlVars, callVars>>

\* lines 159-192: importSessionFromJson(jsonText) up to the first await
ImportStart ==
  /\ imp.pc = "idle"
  /\ IsSome(jsonText)
  /\ LET text == Get(jsonText)
         err == ImportError(text)
         called == [imp EXCEPT !.calls = @ + 1,
                               !.fromExport = exported.outcome = "resolved",
                               !.storeBefore = sessionsStore]
     IN IF IsSome(err)
          THEN imp' = [called EXCEPT !.pc = "done", !.outcome = "rejected",
                                     !.error = Get(err)]
          ELSE imp' = [called EXCEPT
                         !.pc = "addSession.get",
                         !.decoded = Some(DecodeSession(Field(Get(JSONparse(text)), "session"),
                                                        env.clock))]
  /\ UNCHANGED <<jsonText, exported, storeVars, win, nextTabId, captureVars,
                 restoreVars, planVars, queueVars, other, urlVars, callVars>>

\* line 192 / line 57: addSession awaits getAllSessions()
ImportGet ==
  /\ imp.pc = "addSession.get"
  /\ \E ok \in BOOLEAN :
       IF ok
         THEN imp' = [imp EXCEPT !.pc = "addSession.set", !.sessions = sessionsStore]
         ELSE imp' = [imp EXCEPT !.pc = "done", !.outcome = "rejected",
                                 !.error = "storage get failed"]
  /\ UNCHANGED <<jsonText, exported, storeVars, win, nextTabId, captureVars,
                 restoreVars, planVars, queueVars, other, urlVars, callVars>>

\* lines 58-66: addSession awaits setAllSessions() and returns the session
ImportSet ==
  /\ imp.pc = "addSession.set"
  /\ \E ok \in BOOLEAN :
       IF ok
         THEN LET created == CreatedSession(Get(imp.decoded), env.nextSessionId)
              IN /\ sessionsStore' = PrependSession(created, imp.sessions)
                 /\ env' = [env EXCEPT !.nextSessionId = @ + 1]
                 /\ imp' = [imp EXCEPT !.pc = "done", !.outcome = "resolved",
                                       !.result = Some(created)]
         ELSE /\ imp' = [imp EXCEPT !.pc = "done", !.outcome = "rejected",
                                    !.error = "storage set failed"]
              /\ UNCHANGED <<sessionsStore, env>>
  /\ UNCHANGED <<jsonText, exported, lastCaptureStore, settingsStore, win,
                 nextTabId, pc, cap, hist, restoreVars, planVars, queueVars, other, urlVars, callVars>>

\* the import has settled and the user turns to the next export or import
ImportSettled ==
  /\ imp.pc = "done"
  /\ imp.calls < MaxImports
  /\ imp' = [InitImp EXCEPT !.calls = imp.calls]
  /\ jsonText' = None
  /\ exported' = InitExported
  /\ UNCHANGED <<storeVars, win, nextTabId, captureVars, restoreVars,
                 planVars, queueVars, other, urlVars, callVars>>

InitImport ==
  /\ sessionsStore \in StoredSessionLists
  /\ lastCaptureStore = None
  /\ settingsStore = None
  /\ win = <<>>
  /\ nextTabId = FirstFreeTabId
  /\ pc = "idle"
  /\ cap = InitCap
  /\ hist = InitHist
  /\ env = [InitEnv EXCEPT !.nextSessionId = FirstFreeSessionId]
  /\ rpc = "idle"
  /\ req = InitReq
  /\ rs = InitRs
  /\ rhist = InitRhist
  /\ newWin = None
  /\ planTabs = <<>>
  /\ planSettings = defaultSettings
  /\ planResult = None
  /\ queueItems = <<>>
  /\ queueSelected = None
  /\ queueResult = None
  /\ jsonText = None
  /\ exported = InitExported
  /\ imp = InitImp
  /\ other = InitOther
  /\ urlInput = <<>>
  /\ urlResult = None
  /\ storeOps = InitStoreOps
  /\ message = InitMessage

NextImport ==
  \/ PickFile
  \/ ExportCall
  \/ ExportGet
  \/ ImportStart
  \/ ImportGet
  \/ ImportSet
  \/ ImportSettled

SpecImport == InitImport /\ [][NextImport]_vars

----------------------------------------------------------------------------
(* isRestrictedUrl (url.ts), called on its own *)

\* chunks of the string isRestrictedUrl is called on
MaxUrlChunks == 3

\* white space, schemes in lower and upper case, a host, a path, and words
\* with spaces between
UrlChunks ==
  {" ", "\t", "http://", "https://", "HTTPS://", "chrome://", "CHROME://",
   "About:", "edge://", "chrome-extension://", "view-source:", "file://",
   "data:", "blob:", "a.com", "/path", "not a url"}

\* isRestrictedUrl(urlInput) returns
ClassifyUrl ==
  /\ urlResult = None
  /\ urlResult' = Some(isRestrictedUrl(urlInput))
  /\ UNCHANGED <<urlInput, storeVars, win, nextTabId, captureVars, restoreVars,
                 planVars, queueVars, importVars, other, callVars>>

InitUrl ==
  /\ sessionsStore = <<>>
  /\ lastCaptureStore = None
  /\ settingsStore = None
  /\ win = <<>>
  /\ nextTabId = FirstFreeTabId
  /\ pc = "idle"
  /\ cap = InitCap
  /\ hist = InitHist
  /\ env = InitEnv
  /\ rpc = "idle"
  /\ req = InitReq
  /\ rs = InitRs
  /\ rhist = InitRhist
  /\ newWin = None
  /\ planTabs = <<>>
  /\ planSettings = defaultSettings
  /\ planResult = None
  /\ queueItems = <<>>
  /\ queueSelected = None
  /\ queueResult = None
  /\ jsonText = None
  /\ exported = InitExported
  /\ imp = InitImp
  /\ other = InitOther
  /\ urlInput \in SeqsUpTo(UrlChunks, MaxUrlChunks)
  /\ urlResult = None
  /\ storeOps = InitStoreOps
  /\ message = InitMessage

NextUrl == ClassifyUrl

SpecUrl == InitUrl /\ [][NextUrl]_vars

----------------------------------------------------------------------------
(* addSession, updateSession and deleteSession (storage.ts), called from
   the service worker and from the manager page; calls may interleave at
   their awaits *)

\* line 76: { ...s, ...patch } for a patch of an optional title and
\* optional items
ApplyPatch(session, patch) ==
  [session EXCEPT
     !.title = IF IsSome(patch.title) THEN Get(patch.title) ELSE @,
     !.items = IF IsSome(patch.items) THEN Get(patch.items) ELSE @]

\* lines 74-77: sessions.map(...)
UpdatedSessions(sessions, sessionId, patch) ==
  [i \in 1..Len(sessions) |->
     IF sessions[i].id # sessionId THEN sessions[i]
     ELSE ApplyPatch(sessions[i], patch)]

\* line 83: sessions.filter((s) => s.id !== sessionId)
RECURSIVE RemainingSessions(_, _)
RemainingSessions(sessions, sessionId) ==
  IF sessions = <<>> THEN <<>>
  ELSE (IF Head(sessions).id # sessionId THEN <<Head(sessions)>> ELSE <<>>)
         \o RemainingSessions(Tail(sessions), sessionId)

\* the session a caller hands to addSession, with an id of its own or none
SessionToAdd(id) ==
  [id |-> id, title |-> "New", createdAt |-> 50, skippedCount |-> 0,
   items |-> <<StoredItemA>>]

\* the calls made: an addSession without and with an id, a title edit of a
\* stored session, a delete of a stored session and of the first session
\* an addSession creates, an export of a stored session and a clear
StoreCalls ==
  { [kind |-> "addSession", session |-> Some(SessionToAdd(id)), sessionId |-> 0,
     patch |-> None] : id \in {None, Some(7)} }
  \cup
  { [kind |-> "updateSession", session |-> None, sessionId |-> id,
     patch |-> Some([title |-> Some("Renamed"), items |-> None])] : id \in {1, 2} }
  \cup
  { [kind |-> "deleteSession", session |-> None, sessionId |-> id, patch |-> None]
    : id \in {1, FirstFreeSessionId} }
  \cup
  { [kind |-> "exportSessionAsJson", session |-> None, sessionId |-> 1, patch |-> None],
    [kind |-> "clearAllSessions", session |-> None, sessionId |-> 0, patch |-> None] }

\* lines 54, 69, 81, 86, 151: a store function is called and runs up to its
\* first await
StoreCall ==
  \E k \in 1..MaxStoreOps, c \in StoreCalls :
    /\ storeOps[k].pc = "idle"
    /\ k > 1 => storeOps[k - 1].pc # "idle"
    /\ storeOps' = [storeOps EXCEPT ![k] =
                      [IdleStoreOp EXCEPT !.pc = IF c.kind = "clearAllSessions"
                                                   THEN "remove" ELSE "get",
                                          !.kind = c.kind,
                                          !.session = c.session,
                                          !.sessionId = c.sessionId,
                                          !.patch = c.patch]]
    /\ env' = [env EXCEPT !.clock = @ + 1]      \* time passes between calls
    /\ UNCHANGED <<storeVars, win, nextTabId, pc, cap, hist, restoreVars, planVars,
                   queueVars, importVars, other, urlVars, message>>

\* lines 152-156: what exportSessionAsJson does with the list it read
Exported(op, sessions, now) ==
  LET found == FindSession(sessions, op.sessionId) IN
  IF IsSome(found)
    THEN [op EXCEPT !.pc = "done", !.outcome = "resolved", !.sessions = sessions,
                    !.text = Some(JSONstringify(now, Get(found)))]
    ELSE [op EXCEPT !.pc = "done", !.outcome = "rejected", !.sessions = sessions]

\* lines 57, 73, 82, 152: await getAllSessions()
StoreGet ==
  \E k \in 1..MaxStoreOps, ok \in BOOLEAN :
    /\ storeOps[k].pc = "get"
    /\ storeOps' = [storeOps EXCEPT ![k] =
                      IF ~ok THEN [@ EXCEPT !.pc = "done", !.outcome = "rejected"]
                      ELSE IF @.kind = "exportSessionAsJson"
                        THEN Exported(@, sessionsStore, env.clock)
                      ELSE [@ EXCEPT !.pc = "set", !.sessions = sessionsStore]]
    /\ UNCHANGED <<storeVars, win, nextTabId, captureVars, restoreVars, planVars,
                   queueVars, importVars, other, urlVars, message>>

\* lines 58-65, 74-78, 83: the list handed to setAllSessions
NextSessions(op, freshId) ==
  CASE op.kind = "addSession" ->
         PrependSession(CreatedSession(Get(op.session), freshId), op.sessions)
    [] op.kind = "updateSession" ->
         UpdatedSessions(op.sessions, op.sessionId, Get(op.patch))
    [] OTHER -> RemainingSessions(op.sessions, op.sessionId)

\* lines 65-66, 78, 83: await setAllSessions(...)
StoreSet ==
  \E k \in 1..MaxStoreOps, ok \in BOOLEAN :
    LET op == storeOps[k]
        next == NextSessions(op, env.nextSessionId)
        fresh == op.kind = "addSession" /\ ~IsSome(Get(op.session).id)
    IN /\ op.pc = "set"
       /\ IF ok
            THEN /\ sessionsStore' = next
                 /\ storeOps' = [storeOps EXCEPT ![k] =
                      [@ EXCEPT !.pc = "done", !.outcome = "resolved",
                                !.before = sessionsStore, !.after = next,
                                !.created = IF op.kind = "addSession"
                                              THEN Some(Head(next)) ELSE None]]
            ELSE /\ sessionsStore' = sessionsStore
                 /\ storeOps' = [storeOps EXCEPT ![k] =
                      [@ EXCEPT !.pc = "done", !.outcome = "rejected"]]
       /\ env' = IF fresh THEN [env EXCEPT !.nextSessionId = @ + 1] ELSE env
       /\ UNCHANGED <<lastCaptureStore, settingsStore, win, nextTabId, pc, cap, hist,
                      restoreVars, planVars, queueVars, importVars, other, urlVars,
                      message>>

\* lines 86-88: clearAllSessions awaits storageLocalRemove of the sessions
\* key; getAllSessions reads a missing key as the empty list
StoreRemove ==
  \E k \in 1..MaxStoreOps, ok \in BOOLEAN :
    /\ storeOps[k].pc = "remove"
    /\ IF ok
         THEN /\ sessionsStore' = <<>>
              /\ storeOps' = [storeOps EXCEPT ![k] =
                   [@ EXCEPT !.pc = "done", !.outcome = "resolved",
                             !.before = sessionsStore]]
         ELSE /\ sessionsStore' = sessionsStore
              /\ storeOps' = [storeOps EXCEPT ![k] =
                   [@ EXCEPT !.pc = "done", !.outcome = "rejected"]]
    /\ UNCHANGED <<lastCaptureStore, settingsStore, win, nextTabId, captureVars,
                   restoreVars, planVars, queueVars, importVars, other, urlVars,
                   message>>

InitStore ==
  /\ sessionsStore \in StoredSessionLists
  /\ lastCaptureStore = None
  /\ settingsStore = None
  /\ win = <<>>
  /\ nextTabId = FirstFreeTabId
  /\ pc = "idle"
  /\ cap = InitCap
  /\ hist = InitHist
  /\ env = [InitEnv EXCEPT !.nextSessionId = FirstFreeSessionId]
  /\ rpc = "idle"
  /\ req = InitReq
  /\ rs = InitRs
  /\ rhist = InitRhist
  /\ newWin = None
  /\ planTabs = <<>>
  /\ planSettings = defaultSettings
  /\ planResult = None
  /\ queueItems = <<>>
  /\ queueSelected = None
  /\ queueResult = None
  /\ jsonText = None
  /\ exported = InitExported
  /\ imp = InitImp
  /\ other = InitOther
  /\ urlInput = <<>>
  /\ urlResult = None
  /\ storeOps = InitStoreOps
  /\ message = InitMessage

NextStore ==
  \/ StoreCall
  \/ StoreGet
  \/ StoreSet
  \/ StoreRemove

SpecStore == InitStore /\ [][NextStore]_vars

\* lines 186 and 27-29: the command listener awaits openManager() after the
\* capture returned; nothing catches a rejection of its tabsCreate
OpenManagerAfterCapture ==
  /\ pc = "openManager"
  /\ \E ok \in BOOLEAN :
       IF ok
         THEN /\ win' = AddTab(win, PageTab(nextTabId, "OPEN_MANAGER"))
              /\ nextTabId' = nextTabId + 1
         ELSE UNCHANGED <<win, nextTabId>>
  /\ pc' = "idle"
  /\ UNCHANGED <<storeVars, cap, hist, env, restoreVars>>
  /\ UNCHANGED pureVars

\* the settings the options page can save: those a store can hold at the
\* start (defaultSettings itself is read back as a store without settings is)
SettingsToSave == { Get(s) : s \in StoredSettings \ {None} }

\* storage.ts line 38 (optionsApp.tsx line 99): the options page calls
\* setSettings(next), which runs up to its await; no capture waits for it
\* and it waits for none
SetSettingsCall ==
  \E k \in 1..MaxStoreOps, next \in SettingsToSave :
    /\ storeOps[k].pc = "idle"
    /\ k > 1 => storeOps[k - 1].pc # "idle"
    /\ storeOps' = [storeOps EXCEPT ![k] =
                      [IdleStoreOp EXCEPT !.pc = "setSettings",
                                          !.kind = "setSettings",
                                          !.settings = Some(next)]]
    /\ UNCHANGED <<storeVars, win, nextTabId, captureVars, restoreVars, planVars,
                   queueVars, importVars, other, urlVars, message>>

\* storage.ts line 39: the awaited storageLocalSet of the settings key
\* settles; the write may fail
SetSettingsSettles ==
  \E k \in 1..MaxStoreOps, ok \in BOOLEAN :
    /\ storeOps[k].pc = "setSettings"
    /\ settingsStore' = IF ok THEN storeOps[k].settings ELSE settingsStore
    /\ storeOps' = [storeOps EXCEPT ![k] =
                      [@ EXCEPT !.pc = "done",
                                !.outcome = IF ok THEN "resolved" ELSE "rejected"]]
    /\ UNCHANGED <<sessionsStore, lastCaptureStore, win, nextTabId, captureVars,
                   restoreVars, planVars, queueVars, importVars, other, urlVars,
                   message>>

InitCapture ==
  /\ sessionsStore = <<>>
  /\ lastCaptureStore = None
  /\ settingsStore \in StoredSettings
  /\ win \in Windows
  /\ nextTabId = FirstFreeTabId
  /\ pc = "idle"
  /\ cap = InitCap
  /\ hist = InitHist
  /\ env = InitEnv
  /\ rpc = "idle"
  /\ req = InitReq
  /\ rs = InitRs
  /\ rhist = InitRhist
  /\ newWin = None
  /\ planTabs = <<>>
  /\ planSettings = defaultSettings
  /\ planResult = None
  /\ queueItems = <<>>
  /\ queueSelected = None
  /\ queueResult = None
  /\ jsonText = None
  /\ exported = InitExported
  /\ imp = InitImp
  /\ other = InitOther
  /\ urlInput = <<>>
  /\ urlResult = None
  /\ storeOps = InitStoreOps
  /\ message = InitMessage

NextCapture ==
  \/ StartCapture
  \/ GetSettings
  \/ WindowsGetCurrent
  \/ TabsQueryStep
  \/ AddSessionGet
  \/ AddSessionSet
  \/ RemoveBatch
  \/ RemoveEach
  \/ SetLastCapture
  \/ CatchSetLastCapture
  \/ OpenManagerAfterCapture
  \/ UserClosesTab
  \/ onOpenTab
  \/ OptionsButton
  \/ BackToManagerButton

SpecCapture == InitCapture /\ [][NextCapture]_vars

----------------------------------------------------------------------------
(* A command that arrives while a capture is suspended (service-worker.ts
   lines 182-189).  The listener calls captureCurrentWindow for every
   command, as the message listener does for every message.  The steps
   above are those of the invocation whose continuation runs next; other
   holds the invocation that waits meanwhile. *)

\* lines 182-186: the listener calls captureCurrentWindow while
\* the capture already started is suspended at an await; the new invocation
\* runs up to its first await
TriggerDuringCapture ==
  /\ pc # "idle"
  /\ other = InitOther
  /\ other' = [pc |-> "getSettings",
               cap |-> [InitCap EXCEPT !.startedAt = env.clock],
               hist |-> StartedHist("command")]
  /\ env' = [env EXCEPT !.clock = @ + 1]
  /\ UNCHANGED <<storeVars, win, nextTabId, pc, cap, hist, restoreVars,
                 planVars, queueVars, importVars, urlVars, callVars>>

\* the await of the other invocation settles first: its continuation is the
\* one that runs next
ResumeOther ==
  /\ other.pc # "idle"
  /\ pc' = other.pc
  /\ cap' = other.cap
  /\ hist' = other.hist
  /\ other' = [pc |-> pc, cap |-> cap, hist |-> hist]
  /\ UNCHANGED <<storeVars, win, nextTabId, env, restoreVars,
                 planVars, queueVars, importVars, urlVars, callVars>>

\* a window with two tabs that can be captured and closed
TriggerWindow ==
  << MkTab(TRUE, 1, Some(HttpsA), Some(<<"A">>), None, FALSE),
     [MkTab(TRUE, 2, Some(HttpsB), Some(<<"B">>), None, FALSE) EXCEPT !.active = TRUE] >>

InitTriggers ==
  /\ sessionsStore = <<>>
  /\ lastCaptureStore = None
  /\ settingsStore = None
  /\ win = TriggerWindow
  /\ nextTabId = FirstFreeTabId
  /\ pc = "idle"
  /\ cap = InitCap
  /\ hist = InitHist
  /\ env = InitEnv
  /\ rpc = "idle"
  /\ req = InitReq
  /\ rs = InitRs
  /\ rhist = InitRhist
  /\ newWin = None
  /\ planTabs = <<>>
  /\ planSettings = defaultSettings
  /\ planResult = None
  /\ queueItems = <<>>
  /\ queueSelected = None
  /\ queueResult = None
  /\ jsonText = None
  /\ exported = InitExported
  /\ imp = InitImp
  /\ other = InitOther
  /\ urlInput = <<>>
  /\ urlResult = None
  /\ storeOps = InitStoreOps
  /\ message = InitMessage

NextTriggers ==
  \/ StartCapture
  \/ GetSettings
  \/ WindowsGetCurrent
  \/ TabsQueryStep
  \/ AddSessionGet
  \/ AddSessionSet
  \/ RemoveBatch
  \/ RemoveEach
  \/ SetLastCapture
  \/ CatchSetLastCapture
  \/ OpenManagerAfterCapture
  \/ TriggerDuringCapture
  \/ ResumeOther
  \/ onOpenTab
  \/ OptionsButton
  \/ BackToManagerButton

SpecTriggers == InitTriggers /\ [][NextTriggers]_vars

----------------------------------------------------------------------------
(* The chrome.runtime.onMessage listener (service-worker.ts lines 191-226).
   The listener starts an async function and returns true; the function
   awaits the work of the message and then calls sendResponse. *)

\* the argument of a sendResponse call
Response(ok, error, lastCapture) ==
  [ok |-> ok, error |-> error, lastCapture |-> lastCapture]

\* storage.ts lines 94-149: getLastCapture decodes the stored record
DecodeLastCapture(raw) ==
  IF ~IsSome(raw) THEN None
  ELSE LET obj == Get(raw) IN
    Some([createdAt |-> obj.createdAt,
          createdSessionId |-> obj.createdSessionId,
          capturedCount |-> obj.capturedCount,
          closedCount |-> obj.closedCount,
          skippedCount |-> obj.skippedCount,
          skippedRestrictedCount |-> obj.skippedRestrictedCount,
          skippedPinnedCount |-> obj.skippedPinnedCount,
          skippedActiveCount |-> obj.skippedActiveCount,
          failedToCloseCount |-> obj.failedToCloseCount,
          failedToCloseTabIds |-> obj.failedToCloseTabIds,
          failedToCloseUrls |-> obj.failedToCloseUrls,
          closeError |-> obj.closeError,
          debugDryRun |-> obj.debugDryRun,
          error |-> obj.error])

\* the handler of a message that is not CAPTURE_CURRENT_WINDOW, up to its
\* first await or, for an unknown type, to its end
Received(type) ==
  LET m == [InitMessage EXCEPT !.type = type, !.received = message.received + 1] IN
  CASE type \in {"OPEN_MANAGER", "OPEN_OPTIONS"} -> [m EXCEPT !.pc = "tabsCreate"]
    [] type = "GET_LAST_CAPTURE" -> [m EXCEPT !.pc = "getLastCapture"]
    [] OTHER ->
         [m EXCEPT !.pc = "ended", !.outcome = "returned",
                   !.responses = <<Response(Some(FALSE), Some("Unknown message type"),
                                            None)>>]

\* the handler calls sendResponse and returns
Responds(r) ==
  [message EXCEPT !.pc = "ended", !.outcome = "returned",
                  !.responses = Append(@, r)]

\* an awaited call rejected: nothing catches it, the async function ends
\* without a sendResponse
Rejects == [message EXCEPT !.pc = "ended", !.outcome = "rejected"]

NoMessagePending == message.pc \in {"idle", "ended"} /\ pc = "idle"

\* lines 191-221: a message other than CAPTURE_CURRENT_WINDOW arrives
ReceiveMessage ==
  /\ NoMessagePending
  /\ message.received < MaxMessages
  /\ \E type \in {"OPEN_MANAGER", "OPEN_OPTIONS", "GET_LAST_CAPTURE", "UNKNOWN"} :
       message' = Received(type)
  /\ UNCHANGED <<storeVars, win, nextTabId, captureVars, restoreVars, planVars,
                 queueVars, importVars, other, urlVars, storeOps>>

\* lines 195-197: CAPTURE_CURRENT_WINDOW arrives; captureCurrentWindow runs
\* up to its first await
ReceiveCaptureMessage ==
  /\ NoMessagePending
  /\ message.received < MaxMessages
  /\ env.captures < MaxCaptures
  /\ message' = [InitMessage EXCEPT !.type = "CAPTURE_CURRENT_WINDOW",
                                    !.received = message.received + 1,
                                    !.pc = "captureCurrentWindow"]
  /\ pc' = "getSettings"
  /\ cap' = [InitCap EXCEPT !.startedAt = env.clock]
  /\ hist' = StartedHist("message")
  /\ env' = [env EXCEPT !.captures = @ + 1, !.clock = @ + 1]
  /\ UNCHANGED <<storeVars, win, nextTabId, restoreVars, planVars,
                 queueVars, importVars, other, urlVars, storeOps>>

\* lines 197-200: the awaited captureCurrentWindow() settles
CaptureSettles ==
  /\ message.pc = "captureCurrentWindow"
  /\ pc = "idle"
  /\ hist.outcome # "none"
  /\ message' = IF hist.outcome = "returned"
                  THEN LET info == Get(hist.returned) IN
                       Responds(Response(Some(ResponseOk(info)), info.error, Some(info)))
                  ELSE Rejects
  /\ UNCHANGED <<storeVars, win, nextTabId, captureVars, restoreVars, planVars,
                 queueVars, importVars, other, urlVars, storeOps>>

\* lines 202-211 and 27-33: the awaited tabsCreate of openManager or
\* openOptions settles
OpenPageSettles ==
  /\ message.pc = "tabsCreate"
  /\ \E ok \in BOOLEAN :
       IF ok
         THEN /\ win' = AddTab(win, PageTab(nextTabId, message.type))
              /\ nextTabId' = nextTabId + 1
              /\ message' = Responds(Response(Some(TRUE), None, None))
         ELSE /\ message' = Rejects
              /\ UNCHANGED <<win, nextTabId>>
  /\ UNCHANGED <<storeVars, captureVars, restoreVars, planVars,
                 queueVars, importVars, other, urlVars, storeOps>>

\* lines 212-216: the awaited getLastCapture() settles
GetLastCaptureSettles ==
  /\ message.pc = "getLastCapture"
  /\ \E ok \in BOOLEAN :
       message' = IF ok THEN Responds(Response(None, None, DecodeLastCapture(lastCaptureStore)))
                  ELSE Rejects
  /\ UNCHANGED <<storeVars, win, nextTabId, captureVars, restoreVars, planVars,
                 queueVars, importVars, other, urlVars, storeOps>>

InitMessages ==
  /\ sessionsStore = <<>>
  /\ lastCaptureStore = None
  /\ settingsStore = None
  /\ win = TriggerWindow
  /\ nextTabId = FirstFreeTabId
  /\ pc = "idle"
  /\ cap = InitCap
  /\ hist = InitHist
  /\ env = InitEnv
  /\ rpc = "idle"
  /\ req = InitReq
  /\ rs = InitRs
  /\ rhist = InitRhist
  /\ newWin = None
  /\ planTabs = <<>>
  /\ planSettings = defaultSettings
  /\ planResult = None
  /\ queueItems = <<>>
  /\ queueSelected = None
  /\ queueResult = None
  /\ jsonText = None
  /\ exported = InitExported
  /\ imp = InitImp
  /\ other = InitOther
  /\ urlInput = <<>>
  /\ urlResult = None
  /\ storeOps = InitStoreOps
  /\ message = InitMessage

NextMessages ==
  \/ ReceiveMessage
  \/ ReceiveCaptureMessage
  \/ GetSettings
  \/ WindowsGetCurrent
  \/ TabsQueryStep
  \/ AddSessionGet
  \/ AddSessionSet
  \/ RemoveBatch
  \/ RemoveEach
  \/ SetLastCapture
  \/ CatchSetLastCapture
  \/ CaptureSettles
  \/ OpenPageSettles
  \/ GetLastCaptureSettles
  \/ SetSettingsCall
  \/ SetSettingsSettles
  \/ onOpenTab
  \/ OptionsButton
  \/ BackToManagerButton

SpecMessages == InitMessages /\ [][NextMessages]_vars

----------------------------------------------------------------------------
(* Properties of captureCurrentWindow, checked under SpecCapture *)

\* the capture has run to its return or to its rejection
CaptureFinished == pc = "idle" /\ hist.started

\* the stored session this capture created, if any
SessionsOfCapture ==
  { k \in 1..Len(sessionsStore) : sessionsStore[k].createdAt = cap.startedAt }

CreatedIsStored ==
  /\ IsSome(cap.created)
  /\ \E k \in 1..Len(sessionsStore) : sessionsStore[k] = Get(cap.created)

\* C1: no tabsRemove call (batched or per-tab) is issued before addSession
\* of the same capture has returned: control is at a tabsRemove call only
\* with the created session stored, every call in the history was made after
\* addSession returned, and a capture whose addSession has not returned has
\* made no call and closed no tab.
C1_PersistBeforeClose ==
  /\ pc \in {"tabsRemove.batch", "tabsRemove.each"} => CreatedIsStored
  /\ \A k \in 1..Len(hist.removeCalls) : hist.removeCalls[k].afterAdd
  /\ ~hist.addDone => (hist.removeCalls = <<>> /\ hist.closed = {})

\* the batched remove failed and the per-tab fallback closed tabs
C1_Witness ==
  /\ Len(hist.removeCalls) >= 2
  /\ hist.closed # {}
  /\ CreatedIsStored

\* every close of the capture failed: the batch and each per-tab remove
AllClosesFailed ==
  /\ Len(cap.plan.closeTabIds) > 0
  /\ Len(hist.removeCalls) = Len(cap.plan.closeTabIds) + 1
  /\ cap.failedTabIds = cap.plan.closeTabIds

\* C2: when the session was persisted and then every tab close failed, the
\* session of this capture is in the store with exactly the plan's items in
\* plan order, and captureCurrentWindow returned normally.
C2_SessionKeptAndReturns ==
  (CaptureFinished /\ hist.addDone /\ AllClosesFailed) =>
    /\ \E k \in 1..Len(sessionsStore) :
         /\ sessionsStore[k].id = Get(cap.created).id
         /\ sessionsStore[k].items = cap.plan.items
    /\ hist.outcome = "returned"

\* the retention half alone, at every moment after the closes failed: the
\* stored session of the capture has the plan's items in plan order
SessionKeptAfterFailedCloses ==
  (hist.addDone /\ AllClosesFailed) =>
    \E k \in 1..Len(sessionsStore) :
      /\ sessionsStore[k].id = Get(cap.created).id
      /\ sessionsStore[k].items = cap.plan.items

\* isRestrictedUrl, worked out once for the URLs of the tab pool
RestrictedPoolUrls ==
  { u \in {HttpsA, HttpsB, HttpsC, ChromeExt} : isRestrictedUrl(u) }

IsRestrictedTabUrl(url) ==
  IF url \in {HttpsA, HttpsB, HttpsC, ChromeExt}
    THEN url \in RestrictedPoolUrls ELSE isRestrictedUrl(url)

\* C3: every handle passed to tabsRemove is the handle of a close candidate
\* of the plan whose URL is the url of an item of the session this capture
\* stored; the tabs closed are close candidates that were in the queried
\* tab list, and no queried tab that is pinned-excluded, restricted or kept
\* active is passed to tabsRemove or closed.
C3_OnlyPlannedTabsClosed ==
  LET cands == cap.plan.closeCandidates
      candIds == { cands[c].tabId : c \in 1..Len(cands) }
      called == UNION { SeqToSet(hist.removeCalls[k].ids) : k \in 1..Len(hist.removeCalls) }
  IN
  /\ \A id \in called :
       \E c \in 1..Len(cands) :
         /\ cands[c].tabId = id
         /\ CreatedIsStored
         /\ \E m \in 1..Len(Get(cap.created).items) :
              Get(cap.created).items[m].url = cands[c].url
  /\ hist.closed \subseteq candIds
  /\ hist.closed \subseteq TabIds(cap.tabs)
  /\ \A id \in called \cup hist.closed :
       \A k \in 1..Len(cap.tabs) :
         LET t == cap.tabs[k] IN
         (t.hasId /\ t.id = id)
         => /\ ~(cap.settings.excludePinnedTabs /\ t.pinned)
            /\ IsSome(t.url)
            /\ ~(cap.settings.keepActiveTab /\ t.active)
            /\ ~IsRestrictedTabUrl(Get(t.url))

\* tabs were closed while the active tab was kept, a queried tab was left
\* out of the plan, and the window holds a tab opened after the query
C3_Witness ==
  /\ hist.closed # {}
  /\ cap.settings.keepActiveTab
  /\ \E k \in 1..Len(cap.tabs) :
       cap.tabs[k].hasId /\ cap.tabs[k].active /\ ~isRestrictedUrl(Get(cap.tabs[k].url))
  /\ \E k \in 1..Len(cap.tabs) : cap.tabs[k].hasId /\ isRestrictedUrl(Get(cap.tabs[k].url))
  /\ \E k \in 1..Len(win) : win[k].id \notin TabIds(cap.tabs) /\ win[k].url = Some(HttpsB)

\* C4: when getSettings, windowsGetCurrent (also a window without a numeric
\* id), tabsQuery or addSession threw, the capture closed no tab, the store
\* holds no session of this capture, and the capture recorded and returned a
\* CaptureInfo whose error is the message, whose counts are 0 and which has
\* no createdSessionId.
C4_FailureIsRecordedAndReturned ==
  (CaptureFinished
     /\ hist.thrownBy \in {"getSettings", "windowsGetCurrent", "tabsQuery", "addSession"})
  =>
    /\ hist.closed = {}
    /\ hist.removeCalls = <<>>
    /\ SessionsOfCapture = {}
    /\ hist.outcome = "returned"
    /\ lastCaptureStore = hist.returned
    /\ LET info == Get(hist.returned) IN
         /\ info.error = hist.caught
         /\ info.capturedCount = 0
         /\ info.closedCount = 0
         /\ info.skippedCount = 0
         /\ info.failedToCloseCount = 0
         /\ info.createdSessionId = None

\* C5: a CaptureInfo recorded or returned by a capture with its error field
\* set means that this capture closed no tab and that no session created by
\* it is in the store.
C5_ErrorMeansNothingDone ==
  \A info \in SeqToSet(hist.writes) \cup SeqToSet(hist.returned) :
    IsSome(info.error) =>
      /\ hist.closed = {}
      /\ ~hist.addDone
      /\ SessionsOfCapture = {}

\* C6: a finished capture has written the last-capture record exactly once,
\* has returned that same record, and the record is what the store holds.
C6_OneRecordPerCapture ==
  CaptureFinished =>
    /\ Len(hist.writes) = 1
    /\ hist.outcome = "returned"
    /\ hist.returned = Some(hist.writes[1])
    /\ lastCaptureStore = hist.returned

----------------------------------------------------------------------------
(* Properties of restoreTabs, checked under SpecRestore *)

\* positions of the history holding an event of one of the kinds
EventsOf(kinds) ==
  { p \in 1..Len(rhist.events) : rhist.events[p].kind \in kinds }

\* the trimmed URL of input item j
TrimmedItemUrl(j) == Trim(req.items[j].url)

\* the input items the loop has dealt with
Processed == 1..(rs.i - 1)

\* the progress event reported for item j
ProgressOf(j) ==
  { p \in EventsOf({"onProgress"}) : rhist.events[p].i = j }

\* the progress event at p counts one more skipped duplicate than the
\* progress event before it, and nothing else
CountsOneSkip(p) ==
  LET earlier == { q \in EventsOf({"onProgress"}) : q < p } IN
  /\ earlier # {}
  /\ LET q == CHOOSE x \in earlier : \A y \in earlier : y <= x
         now == Get(rhist.events[p].progress)
         before == Get(rhist.events[q].progress)
     IN /\ now.skippedDuplicatesCount = before.skippedDuplicatesCount + 1
        /\ now.openedCount = before.openedCount
        /\ now.failedCount = before.failedCount

\* the field of the events of one kind, in the order of the history
RECURSIVE IdsOf(_, _)
IdsOf(events, kind) ==
  IF events = <<>> THEN <<>>
  ELSE (IF Head(events).kind = kind /\ Head(events).id # 0
          THEN <<Head(events).id>> ELSE <<>>) \o IdsOf(Tail(events), kind)

RECURSIVE UrlsOf(_, _)
UrlsOf(events, kind) ==
  IF events = <<>> THEN <<>>
  ELSE (IF Head(events).kind = kind THEN <<Head(events).url>> ELSE <<>>)
         \o UrlsOf(Tail(events), kind)

\* C7: tabsCreate is called one call at a time and in input order: each call
\* carries the trimmed URL of its item, the items of successive calls
\* ascend, a call is settled before the next one is made, every non-empty
\* earlier item has had its progress callback before a call is made, and
\* openedTabIds lists the handles of the opened tabs in the order of opening.
C7_OpensInInputOrder ==
  LET E == rhist.events
      calls == EventsOf({"tabsCreate"})
      settles == EventsOf({"created", "createFailed"})
  IN
  /\ \A p \in calls :
       /\ E[p].i \in 1..Len(req.items)
       /\ E[p].url = TrimmedItemUrl(E[p].i)
       /\ \A j \in 1..(E[p].i - 1) :
            TrimmedItemUrl(j) # <<>> => \E r \in ProgressOf(j) : r < p
  /\ \A p, q \in calls :
       p < q => /\ E[p].i < E[q].i
                /\ \E r \in settles : p < r /\ r < q /\ E[r].i = E[p].i
  /\ rs.openedTabIds = IdsOf(E, "created")

\* a restore returned after opening two tabs and failing to open one, with
\* an item whose stored URL had to be trimmed
C7_Witness ==
  /\ rhist.outcome = "returned"
  /\ Len(rs.openedTabIds) >= 2
  /\ EventsOf({"createFailed"}) # {}
  /\ \E p \in EventsOf({"tabsCreate"}) :
       req.items[rhist.events[p].i].url # rhist.events[p].url

\* a tab of the target window, as it was when the window was resolved, has
\* the URL
OpenAtStart(u) ==
  \E k \in 1..Len(rhist.startTabs) : rhist.startTabs[k].url = Some(u)

\* C8: with skipDuplicates, a URL that is open in the target window when the
\* restore starts is never passed to tabsCreate, and every input occurrence
\* of it (after trimming) is reported with skippedDuplicatesCount one higher.
C8_OpenUrlsAreSkipped ==
  req.skipDuplicates =>
    /\ \A p \in EventsOf({"tabsCreate"}) : ~OpenAtStart(rhist.events[p].url)
    /\ \A j \in Processed :
         OpenAtStart(TrimmedItemUrl(j)) =>
           \E r \in ProgressOf(j) : CountsOneSkip(r)

\* a restore returned having skipped two occurrences of a URL of the window,
\* one of them stored with whitespace around it
C8_Witness ==
  /\ rhist.outcome = "returned"
  /\ req.skipDuplicates
  /\ rs.skippedDuplicatesCount >= 2
  /\ \E j, k \in 1..Len(req.items) :
       /\ j # k
       /\ TrimmedItemUrl(j) = TrimmedItemUrl(k)
       /\ req.items[j].url # TrimmedItemUrl(j)
       /\ OpenAtStart(TrimmedItemUrl(j))

\* C9: with skipDuplicates, no URL is opened successfully twice in one
\* restore, and each later occurrence of an opened URL is not passed to
\* tabsCreate but reported with skippedDuplicatesCount one higher.
C9_NoUrlOpenedTwice ==
  req.skipDuplicates =>
    LET E == rhist.events
        opened == EventsOf({"created"})
    IN
    /\ \A p, q \in opened : p < q => E[p].url # E[q].url
    /\ \A p \in opened :
         \A j \in Processed :
           (j > E[p].i /\ TrimmedItemUrl(j) = E[p].url) =>
             /\ \A c \in EventsOf({"tabsCreate"}) : E[c].i # j
             /\ \E r \in ProgressOf(j) : CountsOneSkip(r)

\* a restore returned having opened a URL that was not in the window and
\* skipped a later occurrence of it
C9_Witness ==
  /\ rhist.outcome = "returned"
  /\ req.skipDuplicates
  /\ \E p \in EventsOf({"created"}) :
       /\ ~OpenAtStart(rhist.events[p].url)
       /\ \E j \in 1..Len(req.items) :
            j > rhist.events[p].i /\ TrimmedItemUrl(j) = rhist.events[p].url

\* C10: a failing tabsCreate does not abort the restore: failedUrls holds the
\* trimmed URLs of the failed calls in order, failedCount is its length,
\* restoreTabs does not reject, and when it is done it has returned a result
\* with these values after dealing with every input item.
C10_FailureDoesNotAbort ==
  LET E == rhist.events
      failures == EventsOf({"createFailed"})
  IN
  /\ rs.failedCount = Len(rs.failedUrls)
  /\ rs.failedUrls = UrlsOf(E, "createFailed")
  /\ \A p \in failures : E[p].url = TrimmedItemUrl(E[p].i)
  /\ failures # {} => rhist.outcome # "rejected"
  /\ (failures # {} /\ rpc = "done") =>
       /\ rhist.outcome = "returned"
       /\ Get(rhist.result).failedUrls = rs.failedUrls
       /\ Get(rhist.result).failedCount = Len(rs.failedUrls)
       /\ \A j \in 1..Len(req.items) :
            TrimmedItemUrl(j) # <<>> => ProgressOf(j) # {}

\* a restore returned after a failed open that was followed by a successful
\* one
C10_Witness ==
  /\ rhist.outcome = "returned"
  /\ \E p \in EventsOf({"createFailed"}) :
       \E q \in EventsOf({"created"}) : p < q

\* the input items among the first n whose URL is not empty after trimming
NonEmptyItems(n) ==
  { j \in 1..n : TrimmedItemUrl(j) # <<>> }

\* the three counts of a RestoreResult or of a RestoreProgress, added up
CountSum(c) == c.openedCount + c.skippedDuplicatesCount + c.failedCount

\* C11: in the RestoreResult and in the final `done` progress event,
\* openedCount + skippedDuplicatesCount + failedCount is the number of input
\* items whose URL is not empty after trimming; while the loop is between two
\* items the sum is the number of such items among those dealt with.
C11_CountsAddUp ==
  /\ IsSome(rhist.result) =>
       CountSum(Get(rhist.result)) = Cardinality(NonEmptyItems(Len(req.items)))
  /\ \A p \in EventsOf({"onProgress"}) :
       Get(rhist.events[p].progress).phase = "done" =>
         CountSum(Get(rhist.events[p].progress)) =
           Cardinality(NonEmptyItems(Len(req.items)))
  /\ rpc = "loop" => CountSum(rs) = Cardinality(NonEmptyItems(rs.i - 1))

\* a restore returned for a request with an item of empty URL, one failed
\* open and one skipped duplicate
C11_Witness ==
  /\ rhist.outcome = "returned"
  /\ Cardinality(NonEmptyItems(Len(req.items))) < Len(req.items)
  /\ Get(rhist.result).failedCount = 1
  /\ Get(rhist.result).skippedDuplicatesCount = 1

----------------------------------------------------------------------------
(* Properties of buildCapturePlan, checked under SpecPlan *)

\* the URL of a tab after trimming, empty when the tab has none
TabUrl(t) == Trim(IF IsSome(t.url) THEN Get(t.url) ELSE <<>>)

\* the tab produces an item: not excluded as pinned, URL not restricted
Eligible(t, settings) ==
  /\ ~(settings.excludePinnedTabs /\ t.pinned)
  /\ TabUrl(t) # <<>>
  /\ ~isRestrictedUrl(TabUrl(t))

\* positions of the tab list holding a tab that produces an item
EligibleTabs == { k \in 1..Len(planTabs) : Eligible(planTabs[k], planSettings) }

\* C12: every close candidate has the handle of a tab with a handle that
\* produced an item, with the candidate's url that item's url; no two
\* candidates share a handle; closeTabIds is the handles of closeCandidates
\* in the same order; a tab without a handle is no candidate.
C12_CandidatesAreCapturedTabs ==
  IsSome(planResult) =>
    LET plan == Get(planResult)
        cands == plan.closeCandidates
    IN
    /\ \A c \in 1..Len(cands) :
         \E k \in EligibleTabs :
           /\ planTabs[k].hasId
           /\ planTabs[k].id = cands[c].tabId
           /\ cands[c].url = TabUrl(planTabs[k])
           /\ \E m \in 1..Len(plan.items) : plan.items[m].url = cands[c].url
    /\ \A c, d \in 1..Len(cands) : c # d => cands[c].tabId # cands[d].tabId
    /\ plan.closeTabIds = [c \in 1..Len(cands) |-> cands[c].tabId]
    /\ Len(cands) <= Cardinality({ k \in EligibleTabs : planTabs[k].hasId })

\* a plan with two close candidates and an item of a tab without a handle
C12_Witness ==
  /\ IsSome(planResult)
  /\ Len(Get(planResult).closeCandidates) = 2
  /\ \E k \in EligibleTabs : ~planTabs[k].hasId

\* positions of the tab list holding a pinned tab
PinnedTabs == { k \in 1..Len(planTabs) : planTabs[k].pinned }

\* C13: with excludePinnedTabs, skippedPinnedCount is the number of pinned
\* tabs of the input, every item comes from a tab that is not pinned and no
\* close candidate has the handle of a pinned tab; without it,
\* skippedPinnedCount is 0 and a pinned tab is captured and made a close
\* candidate like any other tab.
C13_PinnedTabs ==
  IsSome(planResult) =>
    LET plan == Get(planResult)
        cands == plan.closeCandidates
        unpinned == (1..Len(planTabs)) \ PinnedTabs
    IN
    IF planSettings.excludePinnedTabs
      THEN /\ plan.skippedPinnedCount = Cardinality(PinnedTabs)
           /\ Len(plan.items) <= Cardinality(unpinned)
           /\ \A m \in 1..Len(plan.items) :
                \E k \in unpinned : plan.items[m].url = TabUrl(planTabs[k])
           /\ \A c \in 1..Len(cands) :
                \A k \in PinnedTabs :
                  planTabs[k].hasId => cands[c].tabId # planTabs[k].id
      ELSE /\ plan.skippedPinnedCount = 0
           /\ \A k \in PinnedTabs :
                LET t == planTabs[k] IN
                (TabUrl(t) # <<>> /\ ~isRestrictedUrl(TabUrl(t))) =>
                  /\ \E m \in 1..Len(plan.items) : plan.items[m].url = TabUrl(t)
                  /\ (t.hasId /\ ~(planSettings.keepActiveTab /\ t.active)) =>
                       \E c \in 1..Len(cands) : cands[c].tabId = t.id

\* a plan made with excludePinnedTabs for a list with a pinned tab and a tab
\* that was captured
C13_Witness ==
  /\ IsSome(planResult)
  /\ planSettings.excludePinnedTabs
  /\ PinnedTabs # {}
  /\ Get(planResult).skippedPinnedCount = 1
  /\ Len(Get(planResult).items) >= 1

\* positions of the tab list holding an active tab that produces an item
ActiveEligibleTabs == { k \in EligibleTabs : planTabs[k].active }

\* with keepActiveTab, an eligible active tab is in items and is no close
\* candidate
ActiveTabCapturedNotClosed ==
  LET plan == Get(planResult) IN
  \A k \in ActiveEligibleTabs :
    /\ \E m \in 1..Len(plan.items) : plan.items[m].url = TabUrl(planTabs[k])
    /\ planTabs[k].hasId =>
         \A c \in 1..Len(plan.closeCandidates) :
           plan.closeCandidates[c].tabId # planTabs[k].id

\* C14 as stated: with keepActiveTab, an eligible active tab is in items and
\* never in closeCandidates, and skippedActiveCount is 1 exactly when an
\* eligible active tab is in the input and 0 otherwise.
C14_ActiveCountedWhenEligible ==
  (IsSome(planResult) /\ planSettings.keepActiveTab) =>
    /\ ActiveTabCapturedNotClosed
    /\ Get(planResult).skippedActiveCount =
         (IF ActiveEligibleTabs # {} THEN 1 ELSE 0)

\* C14 amended: with keepActiveTab, an eligible active tab is in items and
\* never in closeCandidates, and skippedActiveCount is 1 exactly when an
\* eligible active tab that has a handle is in the input and 0 otherwise: an
\* active tab without a handle is captured, not closed and not counted.
C14_ActiveCountedWhenItHasHandle ==
  (IsSome(planResult) /\ planSettings.keepActiveTab) =>
    /\ ActiveTabCapturedNotClosed
    /\ Get(planResult).skippedActiveCount =
         (IF \E k \in ActiveEligibleTabs : planTabs[k].hasId THEN 1 ELSE 0)

\* a plan made with keepActiveTab that kept the active tab and has a close
\* candidate
C14_Witness ==
  /\ IsSome(planResult)
  /\ planSettings.keepActiveTab
  /\ \E k \in ActiveEligibleTabs : planTabs[k].hasId
  /\ Get(planResult).skippedActiveCount = 1
  /\ Len(Get(planResult).items) = 2
  /\ Len(Get(planResult).closeCandidates) = 1

\* the arrangements of the tab list: every position exactly once
Arrangements ==
  { q \in InjectiveSeqs(1..Len(planTabs), Len(planTabs)) : Len(q) = Len(planTabs) }

\* the arrangement lists the tabs by ascending index and, where two tabs
\* with handles share an index, by ascending handle
Ascending(q) ==
  \A i, j \in 1..Len(q) :
    i < j =>
      LET a == planTabs[q[i]]
          b == planTabs[q[j]]
      IN /\ a.index <= b.index
         /\ (a.index = b.index /\ a.hasId /\ b.hasId) => a.id <= b.id

\* the tab is captured and made a close candidate
Closable(t, settings) ==
  /\ Eligible(t, settings)
  /\ t.hasId
  /\ ~(settings.keepActiveTab /\ t.active)

\* C15: items and closeCandidates are listed by ascending tab index, ties
\* between handles broken by ascending handle, whatever the order of the
\* input: some arrangement of the input in that order yields the URLs of
\* the items and the handles of the close candidates, in sequence.
C15_PlanIsSortedByIndexThenHandle ==
  IsSome(planResult) =>
    LET plan == Get(planResult) IN
    \E q \in Arrangements :
      LET IsEligible(k) == Eligible(planTabs[k], planSettings)
          IsClosable(k) == Closable(planTabs[k], planSettings)
          captured == SelectSeq(q, IsEligible)
          closed == SelectSeq(q, IsClosable)
      IN /\ Ascending(q)
         /\ [m \in 1..Len(plan.items) |-> plan.items[m].url] =
              [m \in 1..Len(captured) |-> TabUrl(planTabs[captured[m]])]
         /\ [c \in 1..Len(plan.closeCandidates) |-> plan.closeCandidates[c].tabId] =
              [c \in 1..Len(closed) |-> planTabs[closed[c]].id]

\* a plan with three items, two of them from tabs with handles that share
\* an index, made from a list that was in neither index nor handle order
C15_Witness ==
  /\ IsSome(planResult)
  /\ Len(Get(planResult).items) = 3
  /\ Len(Get(planResult).closeCandidates) = 2
  /\ planTabs[1].index > planTabs[2].index
  /\ planTabs[2].index = planTabs[3].index
  /\ planTabs[2].hasId /\ planTabs[3].hasId /\ planTabs[2].id > planTabs[3].id

\* the tab list in the order of an arrangement
Arranged(q) == [i \in 1..Len(q) |-> planTabs[q[i]]]

\* C16 as stated: the plan does not depend on the order of the input: every
\* arrangement of the same tab list, tabs sharing an index or lacking a
\* handle included, gives with the same settings the same plan, in items,
\* closeCandidates and all counts.
C16_PlanIndependentOfInputOrder ==
  IsSome(planResult) =>
    \A q \in Arrangements :
      buildCapturePlan(Arranged(q), planSettings) = Get(planResult)

\* two tabs of the list share an index and both lack a handle
HandlelessTie ==
  \E i, j \in 1..Len(planTabs) :
    /\ i # j
    /\ planTabs[i].index = planTabs[j].index
    /\ ~planTabs[i].hasId /\ ~planTabs[j].hasId

\* C16 amended: the plan does not depend on the order of the input when no
\* two tabs without a handle share an index: every arrangement of such a
\* tab list, tabs with handles sharing an index and tabs lacking a handle
\* included, gives with the same settings the same plan, in items,
\* closeCandidates and all counts.
C16_PlanIndependentOfOrderWithoutTie ==
  (IsSome(planResult) /\ ~HandlelessTie) =>
    \A q \in Arrangements :
      buildCapturePlan(Arranged(q), planSettings) = Get(planResult)

\* a plan with three items made from a list that was not in sorted order:
\* a tab without a handle ahead of two tabs with handles that share a
\* lower index, the larger handle first
C16_Witness ==
  /\ IsSome(planResult)
  /\ Len(planTabs) = 3
  /\ ~HandlelessTie
  /\ ~planTabs[1].hasId
  /\ planTabs[1].index > planTabs[2].index
  /\ planTabs[2].index = planTabs[3].index
  /\ planTabs[2].hasId /\ planTabs[3].hasId /\ planTabs[2].id > planTabs[3].id
  /\ Len(Get(planResult).items) = 3
  /\ Get(planResult).items[3].url = TabUrl(planTabs[1])

----------------------------------------------------------------------------
(* Properties of removeTabsSafely, checked under SpecCapture *)

\* the batched remove was made and rejected
BatchFailed ==
  Len(hist.removeCalls) >= 1 /\ ~hist.removeCalls[1].ok

\* removeTabsSafely has returned from its fallback
FallbackReturned ==
  BatchFailed /\ pc # "tabsRemove.each"

\* the handles of the per-tab calls made so far with the given outcome, in
\* the order of the calls
RECURSIVE AttemptsWith(_, _)
AttemptsWith(calls, ok) ==
  IF calls = <<>> THEN <<>>
  ELSE (IF Head(calls).ok = ok THEN Head(calls).ids ELSE <<>>)
         \o AttemptsWith(Tail(calls), ok)

\* C17: when the batched remove fails, every handle gets exactly one
\* per-tab remove in input order, whatever failed before it; closed is the
\* handles whose own attempt fulfilled and failed the handles whose attempt
\* rejected, so the two lists partition the input handles; the message of
\* the batch is kept as closeError and removeTabsSafely returns.
C17_FallbackTriesEveryHandle ==
  BatchFailed =>
    LET ids == cap.plan.closeTabIds
        calls == hist.removeCalls
        each == Tail(calls)
    IN
    /\ calls[1].ids = ids
    /\ Len(each) <= Len(ids)
    /\ \A k \in 1..Len(each) : each[k].ids = <<ids[k]>>
    /\ cap.closedTabIds = AttemptsWith(each, TRUE)
    /\ cap.failedTabIds = AttemptsWith(each, FALSE)
    /\ IsSome(cap.closeError)
    /\ FallbackReturned =>
         /\ Len(each) = Len(ids)
         /\ SeqToSet(cap.closedTabIds) \cup SeqToSet(cap.failedTabIds) = SeqToSet(ids)
         /\ SeqToSet(cap.closedTabIds) \cap SeqToSet(cap.failedTabIds) = {}
         /\ Len(cap.closedTabIds) + Len(cap.failedTabIds) = Len(ids)
         /\ hist.thrownBy \in {"none", "setLastCapture"}

\* the fallback returned after the attempt for the first of two handles
\* failed and the attempt for the second closed its tab
C17_Witness ==
  /\ FallbackReturned
  /\ Len(cap.plan.closeTabIds) = 2
  /\ cap.failedTabIds = <<cap.plan.closeTabIds[1]>>
  /\ cap.closedTabIds = <<cap.plan.closeTabIds[2]>>

\* C18: when the batched remove fulfils, it is the only remove call, closed
\* is the input handles in input order, failed is empty and there is no
\* closeError; for an empty handle list no remove call is made at all and
\* both lists are empty.
C18_BatchSuccessClosesAll ==
  /\ (Len(hist.removeCalls) >= 1 /\ hist.removeCalls[1].ok) =>
       /\ Len(hist.removeCalls) = 1
       /\ hist.removeCalls[1].ids = cap.plan.closeTabIds
       /\ cap.closedTabIds = cap.plan.closeTabIds
       /\ cap.failedTabIds = <<>>
       /\ cap.closeError = None
  /\ (hist.addDone /\ Len(cap.plan.closeTabIds) = 0) =>
       /\ hist.removeCalls = <<>>
       /\ cap.closedTabIds = <<>>
       /\ cap.failedTabIds = <<>>
       /\ cap.closeError = None

\* one batched remove closed two tabs
C18_Witness ==
  /\ Len(hist.removeCalls) = 1
  /\ hist.removeCalls[1].ok
  /\ Len(cap.closedTabIds) = 2
  /\ hist.closed = SeqToSet(cap.plan.closeTabIds)

----------------------------------------------------------------------------
(* Properties of the CaptureInfo of a capture, checked under SpecCapture *)

\* the session was persisted and removeTabsSafely reported handles it could
\* not close
ClosingFailed ==
  /\ CaptureFinished
  /\ hist.addDone
  /\ cap.failedTabIds # <<>>

\* the record of the capture reports the close failure as non-fatal
NonFatalCloseRecord(info) ==
  /\ info.error = None
  /\ info.createdSessionId = Some(Get(cap.created).id)
  /\ info.capturedCount = Len(cap.plan.items)
  /\ info.closeError = cap.closeError
  /\ IsSome(info.closeError)
  /\ info.failedToCloseTabIds = cap.failedTabIds
  /\ info.failedToCloseCount = Len(cap.failedTabIds)
  /\ info.failedToCloseUrls = FailedUrls(cap.plan.closeCandidates, cap.failedTabIds)
  /\ info.closedCount = Len(cap.closedTabIds)

\* C19: when closing failed partly or completely after the session was
\* persisted, the CaptureInfo recorded by the capture has no error, carries
\* createdSessionId and the full capturedCount, reports the failure through
\* closeError, failedToCloseTabIds and failedToCloseUrls only, and the
\* response to CAPTURE_CURRENT_WINDOW for it has ok = true.
C19_CloseFailureIsNotFatal ==
  ClosingFailed =>
    /\ IsSome(lastCaptureStore)
    /\ NonFatalCloseRecord(Get(lastCaptureStore))
    /\ hist.returned = lastCaptureStore
    /\ ResponseOk(Get(hist.returned))

\* the same, for the captures whose setLastCapture in the try block
\* fulfilled
CloseFailureIsNotFatalWhenRecorded ==
  (ClosingFailed /\ hist.thrownBy = "none") =>
    /\ IsSome(lastCaptureStore)
    /\ NonFatalCloseRecord(Get(lastCaptureStore))
    /\ hist.returned = lastCaptureStore
    /\ ResponseOk(Get(hist.returned))

\* the capture built its plan, and the plan has no items
PlanIsEmpty ==
  /\ CaptureFinished
  /\ hist.thrownBy \in {"none", "setLastCapture"}
  /\ Len(cap.plan.items) = 0

\* the record of a capture that found nothing to capture
EmptyPlanRecord(info) ==
  /\ info.capturedCount = 0
  /\ info.closedCount = 0
  /\ info.failedToCloseCount = 0
  /\ info.createdSessionId = None
  /\ info.skippedCount = cap.plan.skippedCount
  /\ info.error =
       Some(IF cap.plan.skippedCount > 0
              THEN "All eligible tabs had restricted URLs and were skipped."
              ELSE "No tabs to capture.")

\* C20: when the plan has no items, the capture stores no session, closes
\* no tab and records a CaptureInfo with capturedCount, closedCount and
\* failedToCloseCount 0, no createdSessionId and the explanatory message:
\* the all-skipped one when skippedCount > 0, else the nothing-to-capture one.
C20_EmptyPlanRecordsExplanation ==
  PlanIsEmpty =>
    /\ sessionsStore = <<>>
    /\ hist.removeCalls = <<>>
    /\ hist.closed = {}
    /\ IsSome(lastCaptureStore)
    /\ EmptyPlanRecord(Get(lastCaptureStore))

\* the same, for the captures whose setLastCapture in the try block
\* fulfilled; without that condition, what is left is that no session is
\* stored and no tab is closed
EmptyPlanRecordedWhenStored ==
  PlanIsEmpty =>
    /\ sessionsStore = <<>>
    /\ hist.removeCalls = <<>>
    /\ hist.closed = {}
    /\ hist.thrownBy = "none" =>
         /\ IsSome(lastCaptureStore)
         /\ EmptyPlanRecord(Get(lastCaptureStore))
         /\ hist.returned = lastCaptureStore

----------------------------------------------------------------------------
(* Properties of the progress events of restoreTabs, checked under
   SpecRestore *)

\* positions of the history holding a progress event of the phase
PhaseEvents(phase) ==
  { p \in EventsOf({"onProgress"}) : Get(rhist.events[p].progress).phase = phase }

\* the progress event at p reports one more outcome than the one before it
CountsOneMore(p) ==
  LET earlier == { q \in EventsOf({"onProgress"}) : q < p } IN
  /\ earlier # {}
  /\ LET q == CHOOSE x \in earlier : \A y \in earlier : y <= x IN
     CountSum(Get(rhist.events[p].progress)) =
       CountSum(Get(rhist.events[q].progress)) + 1

\* C21: every input item that was opened, failed to open or was skipped as
\* a duplicate has exactly one `opening` progress event, emitted after its
\* outcome was counted and its tabsCreate settled and before anything of a
\* later item; an item with an empty URL has none; so the `opening` events
\* number 1 plus the items dealt with that have a non-empty URL.
C21_OneProgressEventPerItem ==
  LET E == rhist.events IN
  /\ \A j \in Processed :
       IF TrimmedItemUrl(j) = <<>> THEN ProgressOf(j) = {}
       ELSE /\ Cardinality(ProgressOf(j)) = 1
            /\ \A r \in ProgressOf(j) :
                 /\ Get(E[r].progress).phase = "opening"
                 /\ CountsOneMore(r)
                 /\ \A p \in 1..Len(E) :
                      (E[p].i = j /\ E[p].kind # "onProgress") => p < r
                 /\ \A p \in 1..Len(E) : E[p].i > j => r < p
  /\ EventsOf({"onProgress"}) # {} =>
       Cardinality(PhaseEvents("opening")) =
         1 + Cardinality(NonEmptyItems(rs.i - 1))

\* a restore returned after one item was opened, one skipped as a
\* duplicate and one failed: four `opening` events
C21_Witness ==
  /\ rhist.outcome = "returned"
  /\ rs.openedCount = 1 /\ rs.skippedDuplicatesCount = 1 /\ rs.failedCount = 1
  /\ Cardinality(PhaseEvents("opening")) = 4

\* the place of a phase in the order opening, grouping, done
PhaseRank(phase) ==
  CASE phase = "opening" -> 1
    [] phase = "grouping" -> 2
    [] phase = "done" -> 3

\* C22: the progress events of a restore start with an `opening` event
\* whose three counters are 0, go on with the `opening` events of the
\* items, then at most one `grouping` event, which exists only for target
\* new-window-tab-group, then at most one `done` event, after which nothing
\* is emitted; a restore that returned has emitted exactly one `done` event
\* and a `grouping` event exactly for target new-window-tab-group; total is
\* the number of input items in every event.
C22_ProgressPhasesInOrder ==
  LET E == rhist.events
      P == EventsOf({"onProgress"})
  IN
  /\ \A p \in P : Get(E[p].progress).total = Len(req.items)
  /\ P # {} =>
       LET first == CHOOSE p \in P : \A q \in P : p <= q IN
       /\ Get(E[first].progress).phase = "opening"
       /\ CountSum(Get(E[first].progress)) = 0
       /\ E[first].i = 0
  /\ \A p, q \in P :
       p < q => PhaseRank(Get(E[p].progress).phase) <= PhaseRank(Get(E[q].progress).phase)
  /\ \A p \in PhaseEvents("opening") :
       E[p].i = 0 => \A q \in P : p <= q
  /\ Cardinality(PhaseEvents("grouping")) <= 1
  /\ Cardinality(PhaseEvents("done")) <= 1
  /\ PhaseEvents("grouping") # {} => req.target = "new-window-tab-group"
  /\ \A p \in PhaseEvents("done") : p = Len(E)
  /\ rhist.outcome = "returned" =>
       /\ Cardinality(PhaseEvents("done")) = 1
       /\ (PhaseEvents("grouping") # {}) <=> (req.target = "new-window-tab-group")

\* a restore into a new window with a tab group returned after two items
\* were reported and the grouping event was emitted
C22_Witness ==
  /\ rhist.outcome = "returned"
  /\ req.target = "new-window-tab-group"
  /\ Cardinality(PhaseEvents("opening")) = 3
  /\ Cardinality(PhaseEvents("grouping")) = 1
  /\ Cardinality(PhaseEvents("done")) = 1

\* C23: once the loop has reported progress restoreTabs does not reject,
\* whatever the grouping step meets.  For target new-window-tab-group a
\* missing capability makes no grouping call and sets groupError, a failed
\* tabsGroup sets groupError and leaves groupId absent, a failed
\* tabGroupsUpdate sets groupError; the result has the opened handles and
\* counts of the loop, every opened tab is still in the window, and the
\* `done` event is emitted.  For the other targets no grouping call is made
\* and groupError and groupId are absent.
C23_GroupingIsNonFatal ==
  LET E == rhist.events
      groupCalls == EventsOf({"tabsGroup"})
      updateCalls == EventsOf({"tabGroupsUpdate"})
  IN
  /\ EventsOf({"onProgress"}) # {} => rhist.outcome # "rejected"
  /\ rs.openedTabIds # <<>> => SeqToSet(rs.openedTabIds) \subseteq TabIds(TargetTabs)
  /\ req.target # "new-window-tab-group" =>
       /\ groupCalls = {} /\ updateCalls = {}
       /\ rs.groupError = None /\ rs.groupId = None
  /\ (req.target = "new-window-tab-group" /\ rpc = "done" /\ PhaseEvents("grouping") # {}) =>
       LET res == Get(rhist.result) IN
       /\ rhist.outcome = "returned"
       /\ PhaseEvents("done") # {}
       /\ res.openedTabIds = IdsOf(E, "created")
       /\ res.openedCount = Cardinality(EventsOf({"created"}))
       /\ res.failedCount = Cardinality(EventsOf({"createFailed"}))
       /\ (groupCalls # {} /\ updateCalls = {}) =>
            (IsSome(res.groupError) /\ res.groupId = None)
       /\ res.groupError = Some("Tab groups are not supported in this browser.") =>
            (groupCalls = {} /\ updateCalls = {} /\ res.groupId = None)
       /\ res.groupError = Some("tabGroups.update failed") =>
            (groupCalls # {} /\ updateCalls # {} /\ IsSome(res.groupId))
       /\ (res.groupError = None /\ res.openedTabIds # <<>>) =>
            (groupCalls # {} /\ updateCalls # {} /\ IsSome(res.groupId))
       /\ res.openedTabIds = <<>> => groupCalls = {}

\* a restore into a new window with a tab group returned with two opened
\* tabs after tabsGroup rejected
C23_Witness ==
  /\ rhist.outcome = "returned"
  /\ req.target = "new-window-tab-group"
  /\ Get(rhist.result).groupError = Some("tabs.group failed")
  /\ Len(Get(rhist.result).openedTabIds) = 2
  /\ PhaseEvents("done") # {}

\* a step of restoreTabs itself: the call or one of its continuations, not a
\* step of a page that acts meanwhile
RestoreTabsStep ==
  \/ StartRestore
  \/ ResolveCurrentWindow
  \/ CreateWindow
  \/ RestoreTabsQuery
  \/ LoopSkipEmpty
  \/ LoopSkipDuplicate
  \/ LoopOpen
  \/ TabsCreateSettles
  \/ LoopExit
  \/ LoopExitGrouping
  \/ TabsGroupSettles
  \/ TabGroupsUpdateSettles

\* C24: no step of restoreTabs closes or removes a tab or writes to the
\* store: each step leaves the three stored values as they are and leaves
\* the tabs of the current window in place, with their handles, URLs,
\* titles and pinned state, at most appending tabs after them (opening a
\* tab in the foreground moves the active mark to it); a restore into a new
\* window leaves the current window untouched.
C24_RestoreOnlyAddsTabs ==
  [][ RestoreTabsStep =>
      /\ storeVars' = storeVars
      /\ Len(win') >= Len(win)
      /\ Deactivated(SubSeq(win', 1, Len(win))) = Deactivated(win)
      /\ req.target # "current-window" => win' = win
      /\ (IsSome(newWin) /\ IsSome(newWin')) =>
           /\ Len(Get(newWin')) >= Len(Get(newWin))
           /\ Deactivated(SubSeq(Get(newWin'), 1, Len(Get(newWin)))) =
                Deactivated(Get(newWin)) ]_vars

\* a restore into the current window returned with two tabs opened after
\* the tabs the window had, which are all still there
C24_Witness ==
  /\ rhist.outcome = "returned"
  /\ req.target = "current-window"
  /\ Len(rhist.startTabs) = 2
  /\ Len(win) = Len(rhist.startTabs) + 2
  /\ Deactivated(SubSeq(win, 1, 2)) = Deactivated(rhist.startTabs)
  /\ sessionsStore = <<>>

\* C25: for targets new-window and new-window-tab-group at most one window
\* is created, it holds no URL of the request, it is created before any
\* progress event and any tabsCreate, and every tabsCreate names its
\* handle; for target current-window no window is created and every
\* tabsCreate names the current window.  When the window cannot be
\* resolved or created, or comes without a numeric handle, restoreTabs
\* rejects; a restore that rejected has called tabsCreate for no tab and has
\* emitted no progress event.
C25_TargetWindowFirst ==
  LET E == rhist.events
      made == EventsOf({"windowsCreate"})
      after == EventsOf({"onProgress", "tabsCreate"})
  IN
  /\ IF req.target = "current-window"
       THEN /\ made = {}
            /\ newWin = None
            /\ \A p \in EventsOf({"tabsCreate"}) : E[p].id = CurrentWindowId
       ELSE /\ Cardinality(made) <= 1
            /\ \A p \in after :
                 \E w \in made : w < p /\ E[w].id = CreatedWindowId
            /\ \A p \in EventsOf({"tabsCreate"}) :
                 \A w \in made : E[p].id = E[w].id
            /\ \A k \in 1..Len(rhist.startTabs) :
                 \A j \in 1..Len(req.items) :
                   rhist.startTabs[k].url # Some(TrimmedItemUrl(j))
            /\ \A w \in made : E[w].id = 0 => rhist.outcome = "rejected"
  /\ rhist.outcome = "rejected" =>
       /\ after = {}
       /\ rs.openedTabIds = <<>>
       /\ rs.openedCount = 0
  /\ (rpc = "done" /\ EventsOf({"onProgress"}) = {}) => rhist.outcome = "rejected"

\* a restore into a new window returned after two tabsCreate calls for the
\* window it created
C25_Witness ==
  /\ rhist.outcome = "returned"
  /\ req.target = "new-window"
  /\ Cardinality(EventsOf({"windowsCreate"})) = 1
  /\ Cardinality(EventsOf({"tabsCreate"})) = 2
  /\ IsSome(newWin)
  /\ Len(Get(newWin)) = 3

----------------------------------------------------------------------------
(* Properties of buildRestoreQueue, checked under SpecQueue *)

\* the indices of the list that the selection names
SelectedInRange ==
  { n \in 0..(Len(queueItems) - 1) :
      \E k \in 1..Len(Get(queueSelected)) : Get(queueSelected)[k] = IntIndex(n) }

\* C26: with a selection the result is the items at the indices of the list
\* that the selection names, each once, by ascending index: an index out of
\* range, a negative one, a value that is not finite or not an index and a
\* repetition add nothing, and the order of the selection does not matter;
\* without a selection the result is the item list.
C26_QueueIsSelectedItemsInOrder ==
  IsSome(queueResult) =>
    IF ~IsSome(queueSelected) THEN Get(queueResult) = queueItems
    ELSE Get(queueResult) =
           [m \in 1..Cardinality(SelectedInRange) |->
              queueItems[1 + (CHOOSE n \in SelectedInRange :
                                Cardinality({ x \in SelectedInRange : x < n }) = m - 1)]]

\* a queue of two items made from a selection that names the later index
\* first, repeats it and names an index out of range
C26_Witness ==
  /\ IsSome(queueResult)
  /\ IsSome(queueSelected)
  /\ Len(Get(queueResult)) = 2
  /\ Len(Get(queueSelected)) = 4
  /\ Get(queueSelected)[1] = IntIndex(2)
  /\ Get(queueSelected)[2] = IntIndex(0)
  /\ Get(queueSelected)[3] = IntIndex(2)
  /\ Get(queueSelected)[4] \in {IntIndex(-1), IntIndex(Len(queueItems))}

----------------------------------------------------------------------------
(* Properties of export and import, checked under SpecImport *)

SessionIds(sessions) == { sessions[i].id : i \in 1..Len(sessions) }

\* an import of the text an export returned has resolved
RoundTripDone ==
  /\ imp.outcome = "resolved"
  /\ imp.fromExport
  /\ IsSome(exported.session)

\* the imported session equals the exported one but for a new id, it is
\* added in front of the stored sessions, and these are as they were
RoundTripFaithful ==
  LET original == Get(exported.session)
      created == Get(imp.result)
  IN /\ created.title = original.title
     /\ created.createdAt = original.createdAt
     /\ created.skippedCount = original.skippedCount
     /\ created.items = original.items
     /\ created.id \notin SessionIds(imp.storeBefore)
     /\ sessionsStore = <<created>> \o imp.storeBefore
     /\ \E i \in 1..Len(imp.storeBefore) : imp.storeBefore[i] = original

\* C27: once the import of an exported session has resolved, the store
\* holds a new session with the title, createdAt, skippedCount and items of
\* the original under a new id, and the original is still stored unchanged.
C27_ExportImportRoundTrip == RoundTripDone => RoundTripFaithful

\* the round trip is faithful for a session whose numbers are finite
RoundTripOfFiniteSession ==
  (/\ RoundTripDone
   /\ Get(exported.session).createdAt # Infinity
   /\ Get(exported.session).skippedCount # Infinity) => RoundTripFaithful

\* the text is not JSON, or not the JSON of an object, or its version is not
\* the number 1, or its session is not an object
RejectedShape(text) ==
  \/ text.syntax # "ok"
  \/ text.value.t # "object"
  \/ "version" \notin DOMAIN text.value.v
  \/ text.value.v.version.t # "number"
  \/ text.value.v.version.v # 1
  \/ "session" \notin DOMAIN text.value.v
  \/ text.value.v.session.t # "object"

\* C28: once importSessionFromJson has been called on a text that is not
\* JSON, not a JSON object, of a version other than the number 1 or with a
\* session that is not an object, it has rejected with one of its three
\* errors, it never called addSession and the stored sessions are as they
\* were when it was called.
C28_MalformedImportRejected ==
  (imp.calls > 0 /\ imp.pc # "idle" /\ RejectedShape(Get(jsonText))) =>
    /\ imp.pc = "done"
    /\ imp.outcome = "rejected"
    /\ imp.error \in {"Invalid JSON", "Invalid JSON shape", "Unsupported export format"}
    /\ imp.decoded = None
    /\ imp.result = None
    /\ sessionsStore = imp.storeBefore

\* an import of a JSON object of version 1 whose session is an array has
\* been rejected, with a store that holds sessions
C28_Witness ==
  /\ imp.pc = "done"
  /\ IsSome(jsonText)
  /\ Get(jsonText).syntax = "ok"
  /\ Get(jsonText).value.t = "object"
  /\ "session" \in DOMAIN Get(jsonText).value.v
  /\ Get(jsonText).value.v.session.t = "array"
  /\ imp.error = "Unsupported export format"
  /\ Len(sessionsStore) > 0

\* the session object of the text being imported
SessionOfText == Get(jsonText).value.v.session.v

\* the property of the object is there and is a string
HasString(obj, key) == key \in DOMAIN obj /\ obj[key].t = "string"

\* the property of the object is there and is a number
HasNumber(obj, key) == key \in DOMAIN obj /\ obj[key].t = "number"

\* the entries of the items of the text, none when items is no array
EntriesOfText ==
  IF "items" \in DOMAIN SessionOfText /\ SessionOfText.items.t = "array"
    THEN SessionOfText.items.v ELSE <<>>

\* the places of the entries that are objects with a string url
KeptEntries ==
  { i \in 1..Len(EntriesOfText) :
      /\ EntriesOfText[i].t = "object"
      /\ HasString(EntriesOfText[i].v, "url") }

\* C34: once importSessionFromJson has been called on a version-1 text with
\* a session object, it has not failed on the content of the session: the
\* session handed to addSession has, in their order, one item for each
\* entry of items that is an object with a string url and none for any
\* other entry; an item has the url of its entry and its title, or the url
\* when the entry has no string title; the session has the title of the
\* text, or "Imported session" when that is no string, and its
\* skippedCount, or 0 when that is no number.
C34_ImportKeepsWellFormedItems ==
  (imp.calls > 0 /\ imp.pc # "idle" /\ ~RejectedShape(Get(jsonText))) =>
    /\ IsSome(imp.decoded)
    /\ imp.error \notin {"Invalid JSON", "Invalid JSON shape", "Unsupported export format"}
    /\ LET decoded == Get(imp.decoded) IN
       /\ Len(decoded.items) = Cardinality(KeptEntries)
       /\ \A i \in KeptEntries :
            LET entry == EntriesOfText[i].v
                item == decoded.items[Cardinality({ j \in KeptEntries : j <= i })]
            IN /\ item.url = entry.url.v
               /\ item.title = IF HasString(entry, "title") THEN entry.title.v
                               ELSE entry.url.v
       /\ decoded.title = IF HasString(SessionOfText, "title")
                            THEN SessionOfText.title.v ELSE "Imported session"
       /\ decoded.skippedCount = IF HasNumber(SessionOfText, "skippedCount")
                                   THEN SessionOfText.skippedCount.v ELSE 0

\* an import has resolved of a text with four entries, two of them no
\* object with a string url and one without a title, and with a title and a
\* skippedCount of the wrong type
C34_Witness ==
  /\ imp.outcome = "resolved"
  /\ ~RejectedShape(Get(jsonText))
  /\ Len(EntriesOfText) = 4
  /\ KeptEntries = {3, 4}
  /\ ~HasString(EntriesOfText[3].v, "title")
  /\ ~HasString(SessionOfText, "title")
  /\ ~HasNumber(SessionOfText, "skippedCount")
  /\ Len(Get(imp.result).items) = 2
  /\ Get(imp.result).items[1].title = Get(imp.result).items[1].url
  /\ Get(imp.result).title = "Imported session"
  /\ Get(imp.result).skippedCount = 0
  /\ Head(sessionsStore) = Get(imp.result)

----------------------------------------------------------------------------
(* Properties of concurrent triggers, checked under SpecTriggers *)

\* an invocation has queried the tabs, persisted a session or called tabsRemove
HasActed(c, h) == c.tabs # <<>> \/ h.addDone \/ h.removeCalls # <<>>

\* captureCurrentWindow has been called and has not returned
InProgress(p) == p \notin {"idle", "openManager"}

\* two invocations of captureCurrentWindow are in progress
TwoInProgress == InProgress(pc) /\ InProgress(other.pc)

\* of two invocations in progress, the one triggered later has acted
LaterHasActed ==
  IF cap.startedAt > other.cap.startedAt
    THEN HasActed(cap, hist) ELSE HasActed(other.cap, other.hist)

\* C29: while a capture is in progress, an invocation that a later trigger
\* started has issued no tab query, persisted no session and closed no tab.
C29_OneCaptureAtATime == TwoInProgress => ~LaterHasActed

\* both invocations persisted a session of the same two tabs
BothPersistedSameTabs ==
  /\ Len(sessionsStore) = 2
  /\ sessionsStore[1].items = sessionsStore[2].items
  /\ sessionsStore[1].id # sessionsStore[2].id

\* addSession returned in both invocations and the store holds one session
SessionLostToOtherWrite ==
  /\ hist.addDone
  /\ other.hist.addDone
  /\ Len(sessionsStore) = 1

----------------------------------------------------------------------------
(* Properties of isRestrictedUrl, checked under SpecUrl *)

\* the string is empty or white space only
IsBlank(url) == \A i \in 1..Len(url) : IsSpace(url[i])

\* the first chunk after the leading white space
LeadingChunk(url) == Head(TrimStart(url))

\* the string parses as an absolute URL
ParsesAsUrl(url) == IsSome(ParseProtocol(url))

\* the string is a well-formed http or https URL
IsWebUrl(url) ==
  /\ ~IsBlank(url)
  /\ LeadingChunk(url) \in {"http://", "https://", "HTTP://", "HTTPS://"}
  /\ ParsesAsUrl(url)

\* C30: isRestrictedUrl returns a boolean for every string: true for the
\* empty and the white-space-only string, for a string that starts, in any
\* case, with one of the restricted prefixes, for an absolute URL of a scheme
\* other than http and https and for a string that does not parse as an
\* absolute URL; false for well-formed http and https URLs and for nothing
\* else.
C30_RestrictedUnlessWebUrl ==
  IsSome(urlResult) =>
    /\ Get(urlResult) \in BOOLEAN
    /\ IsBlank(urlInput) => Get(urlResult)
    /\ (~IsBlank(urlInput)
          /\ LeadingChunk(urlInput) \in RestrictedPrefixes \cup {"CHROME://", "About:"})
         => Get(urlResult)
    /\ (ParsesAsUrl(urlInput)
          /\ Get(ParseProtocol(urlInput)) \notin
               { <<"h", "t", "t", "p", ":">>, <<"h", "t", "t", "p", "s", ":">> })
         => Get(urlResult)
    /\ ~ParsesAsUrl(urlInput) => Get(urlResult)
    /\ Get(urlResult) = ~IsWebUrl(urlInput)

\* isRestrictedUrl returned true for a file URL that parses
C30_Witness ==
  /\ urlResult = Some(TRUE)
  /\ urlInput = <<"file://", "/path">>
  /\ ParsesAsUrl(urlInput)

----------------------------------------------------------------------------
(* Items and counts of buildCapturePlan, checked under SpecPlan *)

\* the title an item of the tab is to have
TitleFor(t) ==
  IF IsSome(t.title) /\ ~(\A i \in 1..Len(Get(t.title)) : IsSpace(Get(t.title)[i]))
    THEN Trim(Get(t.title)) ELSE TabUrl(t)

\* C31: every item of the plan has a url that is not empty, has no white
\* space at its ends and is not restricted, and a title that is not empty;
\* the items are, one for one, the tabs that produce an item, each with the
\* trimmed url of its tab and with the trimmed title of its tab, or with the
\* url when the tab has no title or one that is empty after trimming.
C31_ItemsAreWellFormed ==
  IsSome(planResult) =>
    LET items == Get(planResult).items IN
    /\ \A k \in 1..Len(items) :
         /\ items[k].url # <<>>
         /\ ~IsSpace(Head(items[k].url)) /\ ~IsSpace(items[k].url[Len(items[k].url)])
         /\ ~isRestrictedUrl(items[k].url)
         /\ items[k].title # <<>>
    /\ \E f \in [1..Len(items) -> EligibleTabs] :
         /\ \A i, j \in 1..Len(items) : i # j => f[i] # f[j]
         /\ \A k \in 1..Len(items) :
              /\ items[k].url = TabUrl(planTabs[f[k]])
              /\ items[k].title = TitleFor(planTabs[f[k]])
    /\ Len(items) = Cardinality(EligibleTabs)

\* a plan with an item whose title was trimmed, one titled by its url for
\* a title of white space only and one titled by its url for a missing title
C31_Witness ==
  /\ IsSome(planResult)
  /\ Len(Get(planResult).items) = 3
  /\ \E k \in 1..3 : Get(planResult).items[k].title = <<"A">>
  /\ \E k \in 1..3 : /\ Get(planResult).items[k].title = HttpsC
                     /\ \E j \in 1..Len(planTabs) : planTabs[j].title = Some(<<" ">>)
  /\ \E k \in 1..3 : /\ Get(planResult).items[k].title = HttpsA
                     /\ \E j \in 1..Len(planTabs) :
                          planTabs[j].title = None /\ TabUrl(planTabs[j]) = HttpsA

\* the urls of the tabs of the list
PlanUrls == { TabUrl(planTabs[k]) : k \in 1..Len(planTabs) }

\* C32: capturedCount + skippedPinnedCount + skippedRestrictedCount is the
\* number of input tabs, capturedCount is the length of items, skippedCount
\* is skippedRestrictedCount + skippedPinnedCount, and for every URL there
\* are as many items as tabs with that URL that produce an item and as many
\* close candidates as such tabs that can be closed.
C32_EveryTabAccountedOnce ==
  IsSome(planResult) =>
    LET plan == Get(planResult) IN
    /\ plan.capturedCount + plan.skippedPinnedCount + plan.skippedRestrictedCount
         = Len(planTabs)
    /\ plan.capturedCount = Len(plan.items)
    /\ plan.skippedCount = plan.skippedRestrictedCount + plan.skippedPinnedCount
    /\ \A u \in PlanUrls :
         /\ Cardinality({ k \in 1..Len(plan.items) : plan.items[k].url = u })
              = Cardinality({ k \in EligibleTabs : TabUrl(planTabs[k]) = u })
         /\ Cardinality({ k \in 1..Len(plan.closeCandidates) : plan.closeCandidates[k].url = u })
              = Cardinality({ k \in 1..Len(planTabs) :
                                /\ Closable(planTabs[k], planSettings)
                                /\ TabUrl(planTabs[k]) = u })

\* two tabs with handles on one URL gave two items and two close
\* candidates, next to a skipped tab
C32_Witness ==
  /\ IsSome(planResult)
  /\ Len(planTabs) = 3
  /\ Get(planResult).capturedCount = 2
  /\ Get(planResult).skippedCount = 1
  /\ Len(Get(planResult).closeCandidates) = 2
  /\ Get(planResult).closeCandidates[1].url = Get(planResult).closeCandidates[2].url
  /\ Get(planResult).closeCandidates[1].tabId # Get(planResult).closeCandidates[2].tabId

----------------------------------------------------------------------------
(* Properties of the store functions, checked under SpecStore *)

\* the call is one of addSession, updateSession and deleteSession
IsMutation(op) == op.kind \in {"addSession", "updateSession", "deleteSession"}

\* the call wrote the list, and no other call wrote between its read and
\* its write
WroteWhatItRead(op) ==
  IsMutation(op) /\ op.outcome = "resolved" /\ op.sessions = op.before

\* what addSession is to leave: the new session in front, with the given id
\* or an id no stored session has, and the stored sessions behind it as
\* they were
AddedInFront(op) ==
  /\ Len(op.after) = Len(op.before) + 1
  /\ Tail(op.after) = op.before
  /\ Head(op.after) = Get(op.created)
  /\ LET given == Get(op.session)
         new == Head(op.after)
     IN /\ new.title = given.title
        /\ new.createdAt = given.createdAt
        /\ new.skippedCount = given.skippedCount
        /\ new.items = given.items
        /\ IF IsSome(given.id) THEN new.id = Get(given.id)
           ELSE \A i \in 1..Len(op.before) : op.before[i].id # new.id

\* what updateSession with a title is to leave: every session in its place,
\* the one with the id differing in its title only
OnlyTitleChanged(op) ==
  /\ Len(op.after) = Len(op.before)
  /\ \A i \in 1..Len(op.before) :
       IF op.before[i].id = op.sessionId
         THEN /\ op.after[i].title = Get(Get(op.patch).title)
              /\ op.after[i].id = op.before[i].id
              /\ op.after[i].items = op.before[i].items
              /\ op.after[i].createdAt = op.before[i].createdAt
              /\ op.after[i].skippedCount = op.before[i].skippedCount
         ELSE op.after[i] = op.before[i]

\* what deleteSession is to leave: the other sessions, in their order
OnlyTargetRemoved(op) ==
  LET kept == { i \in 1..Len(op.before) : op.before[i].id # op.sessionId } IN
  /\ Len(op.after) = Cardinality(kept)
  /\ \A i \in kept :
       op.after[Cardinality({ j \in kept : j <= i })] = op.before[i]

\* what the call is to leave, by its kind
ChangedOnlyItsTarget(op) ==
  CASE op.kind = "addSession" -> AddedInFront(op)
    [] op.kind = "updateSession" -> OnlyTitleChanged(op)
    [] OTHER -> OnlyTargetRemoved(op)

\* C33: each store mutation changes only its target: addSession puts the
\* new session, with the given id or a new one, in front of the stored
\* sessions and leaves these as they were; updateSession with a title
\* changes the title of the session with that id and nothing else;
\* deleteSession removes the session with that id and nothing else.
C33_MutationChangesOnlyItsTarget ==
  \A k \in 1..MaxStoreOps :
    (IsMutation(storeOps[k]) /\ storeOps[k].outcome = "resolved")
      => ChangedOnlyItsTarget(storeOps[k])

\* a mutation that no other write came between changes only its target
MutationAloneChangesOnlyItsTarget ==
  \A k \in 1..MaxStoreOps :
    WroteWhatItRead(storeOps[k]) => ChangedOnlyItsTarget(storeOps[k])

\* a title edit of the second of two stored sessions has resolved, with no
\* other write between its read and its write
TitleEditedAlone ==
  \E k \in 1..MaxStoreOps :
    /\ WroteWhatItRead(storeOps[k])
    /\ storeOps[k].kind = "updateSession"
    /\ Len(storeOps[k].before) = 2
    /\ storeOps[k].before[2].id = storeOps[k].sessionId
    /\ storeOps[k].after[2].title = "Renamed"
    /\ storeOps[k].before[2].title # "Renamed"

\* the ids of the stored sessions
StoredIds == { sessionsStore[i].id : i \in 1..Len(sessionsStore) }

\* a deleteSession of the id or a clearAllSessions has resolved
WasDeleted(id) ==
  \E k \in 1..MaxStoreOps :
    /\ storeOps[k].outcome = "resolved"
    /\ \/ storeOps[k].kind = "deleteSession" /\ storeOps[k].sessionId = id
       \/ storeOps[k].kind = "clearAllSessions"

\* C35: whatever the interleaving of the store mutations, every session
\* whose addSession has completed and that no deleteSession or
\* clearAllSessions removed is in the stored list: no update is lost.
C35_NoUpdateLost ==
  \A k \in 1..MaxStoreOps :
    (/\ storeOps[k].kind = "addSession"
     /\ storeOps[k].outcome = "resolved"
     /\ ~WasDeleted(Get(storeOps[k].created).id))
      => Get(storeOps[k].created).id \in StoredIds

\* two calls of addSession have resolved, the second having read the list
\* before the first wrote it, and the store holds the session of one
AddLostToOtherAdd ==
  /\ \A k \in 1..2 : /\ storeOps[k].kind = "addSession"
                     /\ storeOps[k].outcome = "resolved"
  /\ Get(storeOps[1].created).id \notin StoredIds
  /\ Get(storeOps[2].created).id \in StoredIds

----------------------------------------------------------------------------
(* The retry after a failed open, checked under SpecRestore *)

\* item j is the next item after item i with the trimmed URL of item i
NextOccurrence(i, j) ==
  /\ i < j
  /\ TrimmedItemUrl(j) = TrimmedItemUrl(i)
  /\ \A k \in (i + 1)..(j - 1) : TrimmedItemUrl(k) # TrimmedItemUrl(i)

\* C36: with skipDuplicates, when tabsCreate failed for a URL, the URL is
\* out of the seen set until a later item is about to open it, and the next
\* item of the batch with that URL is passed to a new tabsCreate and is not
\* reported as a skipped duplicate.
C36_FailedUrlIsRetried ==
  req.skipDuplicates =>
    LET E == rhist.events IN
    \A p \in EventsOf({"createFailed"}) :
      /\ (\A c \in EventsOf({"tabsCreate"}) : c > p => E[c].url # E[p].url)
           => E[p].url \notin rs.seenUrls
      /\ \A j \in Processed :
           NextOccurrence(E[p].i, j) =>
             /\ \E c \in EventsOf({"tabsCreate"}) :
                  c > p /\ E[c].i = j /\ E[c].url = E[p].url
             /\ \A r \in ProgressOf(j) : ~CountsOneSkip(r)

\* a restore with skipDuplicates returned after the open of a URL failed
\* and the next item with that URL was opened
C36_Witness ==
  /\ rhist.outcome = "returned"
  /\ req.skipDuplicates
  /\ \E p \in EventsOf({"createFailed"}) :
       \E q \in EventsOf({"created"}) :
         /\ p < q
         /\ rhist.events[q].url = rhist.events[p].url
         /\ NextOccurrence(rhist.events[p].i, rhist.events[q].i)

----------------------------------------------------------------------------
(* The counters of the progress events, checked under SpecRestore *)

\* the counters of the RestoreProgress of the event at p
CountersAt(p) ==
  LET c == Get(rhist.events[p].progress) IN
  <<c.openedCount, c.skippedDuplicatesCount, c.failedCount>>

\* the progress event before the one at p; p when there is none
PreviousProgress(p) ==
  LET earlier == { q \in EventsOf({"onProgress"}) : q < p } IN
  IF earlier = {} THEN p ELSE CHOOSE x \in earlier : \A y \in earlier : y <= x

\* C38: across the progress events of one restore no counter decreases;
\* the `opening` event of an item has exactly one of openedCount,
\* skippedDuplicatesCount and failedCount higher than the event before it,
\* by 1, and the other two as they were; a `grouping` or `done` event has
\* the three counters of the event before it; and the counters of the
\* `done` event are those of the RestoreResult returned.
C38_CountersStepByOne ==
  LET E == rhist.events
      P == EventsOf({"onProgress"})
  IN
  /\ \A p, q \in P :
       p < q => \A n \in 1..3 : CountersAt(p)[n] <= CountersAt(q)[n]
  /\ \A p \in P :
       PreviousProgress(p) # p =>
         LET now == CountersAt(p)
             before == CountersAt(PreviousProgress(p))
         IN IF Get(E[p].progress).phase = "opening"
              THEN \E n \in 1..3 :
                     /\ now[n] = before[n] + 1
                     /\ \A m \in (1..3) \ {n} : now[m] = before[m]
              ELSE now = before
  /\ IsSome(rhist.result) =>
       /\ PhaseEvents("done") # {}
       /\ \A p \in PhaseEvents("done") :
            CountersAt(p) = <<Get(rhist.result).openedCount,
                              Get(rhist.result).skippedDuplicatesCount,
                              Get(rhist.result).failedCount>>

\* a restore into a new window with a tab group returned after an open
\* failed, a tab was opened and a duplicate was skipped, with a `grouping`
\* and a `done` event after the three of the items
C38_Witness ==
  /\ rhist.outcome = "returned"
  /\ req.target = "new-window-tab-group"
  /\ PhaseEvents("grouping") # {}
  /\ \E p \in PhaseEvents("done") : CountersAt(p) = <<1, 1, 1>>
  /\ \E p \in EventsOf({"createFailed"}) :
       \E q \in EventsOf({"created"}) : p < q

----------------------------------------------------------------------------
(* The counts of the CaptureInfo of a capture that persisted a session,
   checked under SpecCapture *)

\* the URLs of the close candidates with the handles, in the order of the
\* handles
CandidateUrlsOf(ids) ==
  [k \in 1..Len(ids) |->
     LET c == CHOOSE c \in 1..Len(cap.plan.closeCandidates) :
                cap.plan.closeCandidates[c].tabId = ids[k]
     IN cap.plan.closeCandidates[c].url]

\* the counts of the record agree with the close candidates of the plan and
\* with the session this capture stored
CountsAgree(info) ==
  /\ info.closedCount + info.failedToCloseCount = Len(cap.plan.closeCandidates)
  /\ info.closedCount + info.failedToCloseCount <= info.capturedCount
  /\ info.failedToCloseCount = Len(info.failedToCloseTabIds)
  /\ \A k \in 1..Len(info.failedToCloseTabIds) :
       \E c \in 1..Len(cap.plan.closeCandidates) :
         cap.plan.closeCandidates[c].tabId = info.failedToCloseTabIds[k]
  /\ info.failedToCloseUrls = CandidateUrlsOf(info.failedToCloseTabIds)
  /\ info.capturedCount = Len(Get(cap.created).items)
  /\ \E k \in 1..Len(sessionsStore) :
       /\ sessionsStore[k].id = Get(cap.created).id
       /\ Len(sessionsStore[k].items) = info.capturedCount

\* C37: in the CaptureInfo returned by a capture that persisted a session,
\* closedCount + failedToCloseCount is the number of close candidates and
\* at most capturedCount, failedToCloseCount is the length of
\* failedToCloseTabIds, failedToCloseUrls holds the candidate URLs of the
\* failed handles in their order, and capturedCount is the number of items
\* of the session persisted.
C37_CountsOfPersistedCapture ==
  (CaptureFinished /\ hist.addDone /\ hist.outcome = "returned") =>
    CountsAgree(Get(hist.returned))

\* the same, for the captures whose setLastCapture in the try block
\* fulfilled
CountsAgreeWhenRecorded ==
  (CaptureFinished /\ hist.addDone /\ hist.outcome = "returned"
     /\ hist.thrownBy = "none") =>
    /\ CountsAgree(Get(hist.returned))
    /\ hist.returned = lastCaptureStore

\* a capture of three tabs returned the record of the try block after the
\* close of the first and the third failed in the fallback
ReturnedWithTwoFailedCloses ==
  /\ CaptureFinished
  /\ hist.outcome = "returned"
  /\ hist.thrownBy = "none"
  /\ Len(cap.plan.closeCandidates) >= 2
  /\ Get(hist.returned).failedToCloseCount >= 1
  /\ Get(hist.returned).closedCount >= 1
  /\ Get(hist.returned).failedToCloseUrls # <<>>

----------------------------------------------------------------------------
(* The responses of the message listener, checked under SpecMessages *)

\* C39: every message gets exactly one sendResponse call, whatever its type
\* and whether or not the tab creation or the storage call under it fails:
\* no handler calls sendResponse twice, and a handler that has ended, after
\* which it calls nothing more, has called it once.
C39_EveryMessageAnswered ==
  /\ Len(message.responses) <= 1
  /\ message.pc = "ended" => Len(message.responses) = 1

\* a handler none of whose awaited calls rejected has answered once, and
\* no handler answers twice
AnsweredUnlessRejected ==
  /\ Len(message.responses) <= 1
  /\ (message.pc = "ended" /\ message.outcome = "returned") =>
       Len(message.responses) = 1
  /\ (message.pc = "ended" /\ message.outcome = "rejected") =>
       message.responses = <<>>

\* an OPEN_MANAGER message whose tabsCreate rejected was left unanswered
OpenManagerUnanswered ==
  /\ message.type = "OPEN_MANAGER"
  /\ message.pc = "ended"
  /\ message.responses = <<>>

\* a GET_LAST_CAPTURE message whose storage read rejected was left
\* unanswered
GetLastCaptureUnanswered ==
  /\ message.type = "GET_LAST_CAPTURE"
  /\ message.pc = "ended"
  /\ message.responses = <<>>

\* a CAPTURE_CURRENT_WINDOW message was left unanswered after both
\* setLastCapture calls of the capture rejected
CaptureUnanswered ==
  /\ message.type = "CAPTURE_CURRENT_WINDOW"
  /\ message.pc = "ended"
  /\ message.responses = <<>>
  /\ hist.outcome = "rejected"

====
